---- MODULE Spec2Model ----
(***************************************************************************)
(* Model of the Track aggregate of src/src/track/track.cpp.                *)
(* The variable controllers and SpecK2 model the layer and shift buttons   *)
(* of the Xone K2 mapping, res/controllers/Xone-K2-scripts.js.             *)
(*                                                                         *)
(* Every public operation of Track takes the recursive mutex m_qMutex for  *)
(* its whole body, so one operation is one atomic step of the model.  The  *)
(* model is the production build: DEBUG_ASSERT(c) is a no-op and           *)
(* VERIFY_OR_DEBUG_ASSERT(c) { block } runs the block when c is false.     *)
(*                                                                         *)
(* The operations are written as operators over a record s that holds the  *)
(* member fields of the Track and, in s.emitted, the signals the running   *)
(* operation has emitted so far, in order, each as [signal, arg] with the  *)
(* argument it carries (<<>> if it carries none or none that the model     *)
(* follows).  s.lock is the number of times                                *)
(* the running thread holds the recursive mutex, s.emitLock the value of   *)
(* s.lock at each emission and s.io the calls of the metadata source with  *)
(* the value of s.lock at each.  A function that returns a value yields    *)
(* [s |-> the state it leaves, r |-> the value it returns].                *)
(* An action applies an operation to the current state Cur; a statement    *)
(* about one call of an operation is a statement about its result on Cur.  *)
(* The signals of an operation are emitted after it has released the       *)
(* mutex: SpecThreads splits two operations of one thread there, so that   *)
(* an operation of another thread can run in between.                      *)
(***************************************************************************)
EXTENDS Integers, Sequences, FiniteSets, TLC

VARIABLES
    m_record,                   \* mixxx::TrackRecord
    m_pBeats,                   \* mixxx::BeatsPointer
    m_cuePoints,                \* QList<CuePointer>
    m_pBeatsImporterPending,    \* mixxx::BeatsImporterPointer
    m_pCueInfoImporterPending,  \* mixxx::CueInfoImporterPointer
    m_bDirty,                   \* bool
    m_bMarkedForMetadataExport, \* bool
    emitting,                   \* the operation of a thread that has released
                                \* the mutex and not yet emitted titleChanged:
                                \* [op, value], value the title it has written
    delivered,                  \* the last titleChanged of that thread:
                                \* [written, arg]
    reading,                    \* a thread in getRecord(&dirty): [pc, dirty,
                                \* record], what it has stored in *pDirty and
                                \* the record it has returned
    controllers                 \* XoneK2.controllers of the Xone K2 mapping
                                \* (res/controllers/Xone-K2-scripts.js), by
                                \* MIDI channel

vars == <<m_record, m_pBeats, m_cuePoints, m_pBeatsImporterPending,
          m_pCueInfoImporterPending, m_bDirty, m_bMarkedForMetadataExport,
          emitting, delivered, reading, controllers>>

----------------------------------------------------------------------------
(* Bounds of the model *)

\* valid BPM values are 1..MaxBpm
MaxBpm == 2
\* valid frame positions are 0..MaxPos
MaxPos == 1
\* sample rates of a stream are 1..MaxRate (frames per second)
MaxRate == 1
\* the cue collection holds at most MaxCues cues
MaxCues == 2

----------------------------------------------------------------------------
(* Values *)

\* mixxx::Bpm::kValueUndefined: the value of an invalid Bpm
kValueUndefined == 0
\* mixxx::audio::kStartFramePos
kStartFramePos == 0
\* mixxx::audio::kInvalidFramePos, a position outside the valid ones
kInvalidFramePos == -1
\* Cue::kNoHotCue
kNoHotCue == -1
\* mixxx::kFirstHotCueIndex
kFirstHotCueIndex == 0
\* TrackId(): the invalid identifier
kInvalidTrackId == 0

BpmIsValid(bpm) == bpm > kValueUndefined
PosIsValid(pos) == pos # kInvalidFramePos
TrackIdIsValid(id) == id # kInvalidTrackId

BpmValues == kValueUndefined..MaxBpm
ValidPositions == 0..MaxPos
Positions == {kInvalidFramePos} \cup ValidPositions
SampleRates == 1..MaxRate
TrackIds == {kInvalidTrackId, 1}
\* the identifiers a caller passes: no identifier and two rows of the database
AllTrackIds == TrackIds \cup {2}

\* A BeatsPointer.  The code compares the address of a grid only with the
\* one of the grid the track holds (m_pBeats == pBeats), so addresses are
\* kept relative to the track: kNullAddr is nullptr, kHeldAddr the grid the
\* track holds and kOtherAddr any other grid object.  A grid is immutable.
kNullAddr == 0
kHeldAddr == 1
kOtherAddr == 2
nullBeats == [addr |-> kNullAddr, bpm |-> kValueUndefined, firstBeat |-> kStartFramePos]

\* The address of a newly allocated Beats object: it differs from the
\* address of the grid the track holds.
NewBeatsAddr(s) == kOtherAddr

\* m_pBeats = std::move(pBeats): the track holds the object of pBeats
Held(pBeats) ==
    IF pBeats.addr = kNullAddr THEN pBeats ELSE [pBeats EXCEPT !.addr = kHeldAddr]

\* mixxx::Beats::fromConstTempo(sampleRate, position, bpm)
fromConstTempo(s, position, bpm) ==
    [addr |-> NewBeatsAddr(s), bpm |-> bpm, firstBeat |-> position]

\* mixxx::Beats::setBpm(bpm): a new grid at the new tempo
Beats_setBpm(s, bpm) ==
    [addr |-> NewBeatsAddr(s), bpm |-> bpm, firstBeat |-> s.m_pBeats.firstBeat]

\* A BeatsImporterPointer: "null" is nullptr, "empty" an importer whose
\* isEmpty() is true, "data" an importer that holds one beat grid.
nullBeatsImporter == [kind |-> "null", bpm |-> kValueUndefined, firstBeat |-> kStartFramePos]
emptyBeatsImporter == [kind |-> "empty", bpm |-> kValueUndefined, firstBeat |-> kStartFramePos]
BeatsImporters ==
    {nullBeatsImporter, emptyBeatsImporter}
        \cup {[kind |-> "data", bpm |-> b, firstBeat |-> kStartFramePos] : b \in 1..MaxBpm}

\* BeatsImporter::isEmpty()
BeatsImporter_isEmpty(imp) == imp.kind # "data"

\* BeatsImporter::importBeatsAndApplyTimingOffset(): the imported grid
importBeatsAndApplyTimingOffset(s) ==
    [addr |-> NewBeatsAddr(s),
     bpm |-> s.m_pBeatsImporterPending.bpm,
     firstBeat |-> s.m_pBeatsImporterPending.firstBeat]

\* A CueInfoImporterPointer: "null" is nullptr, otherwise infos is the list
\* of cue infos it holds (empty when isEmpty()); a cue info is
\* [type, millis], its position in milliseconds.
CueTypes == {"MainCue", "HotCue"}
nullCueInfoImporter == [kind |-> "null", infos |-> <<>>]
CueInfos == [type : CueTypes, millis : {0, 1000}]
CueInfoImporters ==
    {nullCueInfoImporter, [kind |-> "importer", infos |-> <<>>]}
        \cup {[kind |-> "importer", infos |-> <<i>>] : i \in CueInfos}
        \cup {[kind |-> "importer", infos |-> <<i, j>>] : i \in CueInfos, j \in {[type |-> "MainCue", millis |-> 0]}}

CueInfoImporter_isEmpty(imp) == imp.infos = <<>>

----------------------------------------------------------------------------
(* The state record the operations work on *)

Cur ==
    [m_record |-> m_record,
     m_pBeats |-> m_pBeats,
     m_cuePoints |-> m_cuePoints,
     m_pBeatsImporterPending |-> m_pBeatsImporterPending,
     m_pCueInfoImporterPending |-> m_pCueInfoImporterPending,
     m_bDirty |-> m_bDirty,
     m_bMarkedForMetadataExport |-> m_bMarkedForMetadataExport,
     emitted |-> <<>>,
     lock |-> 0,
     emitLock |-> <<>>,
     io |-> <<>>]

\* The member fields of the track are the ones of s; they are read and
\* written under the mutex, which the thread in getRecord may hold.
Assigned(s) ==
    /\ reading.pc # "locked"
    /\ m_record' = s.m_record
    /\ m_pBeats' = s.m_pBeats
    /\ m_cuePoints' = s.m_cuePoints
    /\ m_pBeatsImporterPending' = s.m_pBeatsImporterPending
    /\ m_pCueInfoImporterPending' = s.m_pCueInfoImporterPending
    /\ m_bDirty' = s.m_bDirty
    /\ m_bMarkedForMetadataExport' = s.m_bMarkedForMetadataExport
    /\ UNCHANGED controllers

\* The operation has left the track in state s, and has emitted its
\* signals.
Done(s) ==
    /\ Assigned(s)
    /\ UNCHANGED <<emitting, delivered, reading>>

\* a call of the metadata source (file I/O), with the locks the calling
\* thread holds
Io(s, call) == [s EXCEPT !.io = Append(@, [call |-> call, lock |-> s.lock])]

\* emit: a signal with a direct connection is delivered in the emitting
\* thread, with the locks that thread holds
Emit(s, signals) ==
    [s EXCEPT !.emitted = @ \o [i \in 1..Len(signals) |-> [signal |-> signals[i], arg |-> <<>>]],
              !.emitLock = @ \o [i \in 1..Len(signals) |-> s.lock]]

\* emit signal(arg)
EmitWith(s, signal, arg) ==
    [s EXCEPT !.emitted = Append(@, [signal |-> signal, arg |-> arg]),
              !.emitLock = Append(@, s.lock)]

\* the signals of the names in names, in the order of their emission
RECURSIVE SignalsOf(_, _)
SignalsOf(emitted, names) ==
    IF emitted = <<>>
    THEN <<>>
    ELSE IF Head(emitted).signal \in names
    THEN <<Head(emitted)>> \o SignalsOf(Tail(emitted), names)
    ELSE SignalsOf(Tail(emitted), names)

\* lockMutex(&m_qMutex): the constructor of a locker of the recursive mutex
lockMutex(s) == [s EXCEPT !.lock = @ + 1]

\* QT_RECURSIVE_MUTEX_LOCKER::unlock
unlock(s) == [s EXCEPT !.lock = @ - 1]

\* A faulty destructor of the locker: the mutex is not released.
LockerScope_notReleased(s, t) == t

\* The destructor of the locker an operation has constructed on entry in
\* state s: the mutex is released unless the locker has released it before.
LockerScope(s, t) == [t EXCEPT !.lock = IF @ > s.lock THEN @ - 1 ELSE @]

\* the same for an operation that returns a value
LockerScopeOf(s, res) == [res EXCEPT !.s = LockerScope(s, res.s)]

\* the state a completed operation leaves to the next operation
After(s) == [s EXCEPT !.emitted = <<>>, !.emitLock = <<>>, !.io = <<>>]

----------------------------------------------------------------------------
(* Dirty flag *)

\* A faulty setDirtyAndUnlock: the signals are emitted whether or not the
\* track has an identifier.
setDirtyAndUnlock_idNotChecked(s, bDirty) ==
    LET dirtyChanged == s.m_bDirty # bDirty
        s1 == unlock([s EXCEPT !.m_bDirty = bDirty])
        trackId == s.m_record.id
        s2 == IF dirtyChanged
              THEN EmitWith(s1, IF bDirty THEN "dirty" ELSE "clean", trackId)
              ELSE s1
    IN  IF bDirty THEN EmitWith(s2, "changed", trackId) ELSE s2

\* Track::setDirtyAndUnlock
setDirtyAndUnlock(s, bDirty) ==
    LET dirtyChanged == s.m_bDirty # bDirty
        s1 == unlock([s EXCEPT !.m_bDirty = bDirty])
        trackId == s.m_record.id
        s2 == IF dirtyChanged
              THEN EmitWith(s1, IF bDirty THEN "dirty" ELSE "clean", trackId)
              ELSE s1
    IN  IF ~TrackIdIsValid(trackId)
        THEN s1
        ELSE IF bDirty THEN EmitWith(s2, "changed", trackId) ELSE s2

\* Track::markDirtyAndUnlock
markDirtyAndUnlock(s) == setDirtyAndUnlock(s, TRUE)

----------------------------------------------------------------------------
(* BPM and beat grid *)

\* getBeatsPointerBpm
getBeatsPointerBpm(pBeats) ==
    IF pBeats.addr # kNullAddr THEN pBeats.bpm ELSE kValueUndefined

\* A faulty setBeatsWhileLocked: the grid is replaced and the tempo of the
\* record is left as it was.
setBeatsWhileLocked_bpmNotSet(s, pBeats) ==
    IF s.m_pBeats.addr = pBeats.addr
    THEN [s |-> s, r |-> FALSE]
    ELSE [s |-> [s EXCEPT !.m_pBeats = Held(pBeats)], r |-> TRUE]

\* Track::setBeatsWhileLocked
setBeatsWhileLocked(s, pBeats) ==
    IF s.m_pBeats.addr = pBeats.addr
    THEN [s |-> s, r |-> FALSE]
    ELSE [s |-> [s EXCEPT !.m_pBeats = Held(pBeats),
                          !.m_record.bpm = getBeatsPointerBpm(pBeats)],
          r |-> TRUE]

\* A faulty trySetBeatsWhileLocked: a change of the BPM lock alone is not
\* reported.
trySetBeatsWhileLocked_lockNotReported(s, pBeats, lockBpmAfterSet) ==
    IF s.m_pBeats.addr # kNullAddr /\ s.m_record.bpmLocked
    THEN [s |-> s, r |-> FALSE]
    ELSE LET set == setBeatsWhileLocked(s, pBeats)
         IN  [s |-> [set.s EXCEPT !.m_record.bpmLocked = lockBpmAfterSet],
              r |-> set.r]

\* Track::trySetBeatsWhileLocked
trySetBeatsWhileLocked(s, pBeats, lockBpmAfterSet) ==
    IF s.m_pBeats.addr # kNullAddr /\ s.m_record.bpmLocked
    THEN [s |-> s, r |-> FALSE]
    ELSE LET set == setBeatsWhileLocked(s, pBeats)
             lockChanged == set.s.m_record.bpmLocked # lockBpmAfterSet
         IN  [s |-> [set.s EXCEPT !.m_record.bpmLocked = lockBpmAfterSet],
              r |-> set.r \/ lockChanged]

\* A faulty trySetBpmWhileLocked: the new grid of a track without grid is
\* placed at the start position, whatever the main cue position is.
trySetBpmWhileLocked_cueIgnored(s, bpm) ==
    IF ~BpmIsValid(bpm)
    THEN trySetBeatsWhileLocked(s, nullBeats, FALSE)
    ELSE IF s.m_pBeats.addr = kNullAddr
    THEN trySetBeatsWhileLocked(s, fromConstTempo(s, kStartFramePos, bpm), FALSE)
    ELSE IF s.m_pBeats.bpm # bpm
    THEN trySetBeatsWhileLocked(s, Beats_setBpm(s, bpm), FALSE)
    ELSE [s |-> s, r |-> FALSE]

\* Track::trySetBpmWhileLocked
trySetBpmWhileLocked(s, bpm) ==
    IF ~BpmIsValid(bpm)
    THEN trySetBeatsWhileLocked(s, nullBeats, FALSE)
    ELSE IF s.m_pBeats.addr = kNullAddr
    THEN LET cuePosition ==
                 IF PosIsValid(s.m_record.mainCuePosition)
                 THEN s.m_record.mainCuePosition
                 ELSE kStartFramePos
         IN  trySetBeatsWhileLocked(s, fromConstTempo(s, cuePosition, bpm), FALSE)
    ELSE IF s.m_pBeats.bpm # bpm
    THEN trySetBeatsWhileLocked(s, Beats_setBpm(s, bpm), FALSE)
    ELSE [s |-> s, r |-> FALSE]

\* Track::emitBeatsAndBpmUpdated
emitBeatsAndBpmUpdated(s) == Emit(s, <<"bpmChanged", "beatsUpdated">>)

\* A faulty afterBeatsAndBpmUpdated: the track is marked dirty and the
\* signals of the beats and the tempo are not emitted.
afterBeatsAndBpmUpdated_noSignals(s) == markDirtyAndUnlock(s)

\* Track::afterBeatsAndBpmUpdated
afterBeatsAndBpmUpdated(s) == emitBeatsAndBpmUpdated(markDirtyAndUnlock(s))

\* A faulty trySetBeatsMarkDirtyAndUnlock: the BPM lock of the record is
\* kept when the grid is set.
trySetBeatsMarkDirtyAndUnlock_lockKept(s, pBeats, lockBpmAfterSet) ==
    LET set == trySetBeatsWhileLocked(s, pBeats, lockBpmAfterSet \/ s.m_record.bpmLocked)
    IN  IF ~set.r
        THEN [s |-> set.s, r |-> FALSE]
        ELSE [s |-> afterBeatsAndBpmUpdated(set.s), r |-> TRUE]

\* Track::trySetBeatsMarkDirtyAndUnlock
trySetBeatsMarkDirtyAndUnlock(s, pBeats, lockBpmAfterSet) ==
    LET set == trySetBeatsWhileLocked(s, pBeats, lockBpmAfterSet)
    IN  IF ~set.r
        THEN [s |-> set.s, r |-> FALSE]
        ELSE [s |-> afterBeatsAndBpmUpdated(set.s), r |-> TRUE]

\* The beat grids a caller can pass: nullptr, the grid the track holds
\* (from getBeats()), or another grid.
BeatsArgs(s) ==
    {nullBeats, s.m_pBeats}
        \cup {[addr |-> NewBeatsAddr(s), bpm |-> b, firstBeat |-> kStartFramePos] :
                b \in BpmValues}

\* A faulty trySetBpm: the result of trySetBpmWhileLocked is ignored.
trySetBpm_resultIgnored(s, bpm) ==
    LET set == trySetBpmWhileLocked(lockMutex(s), bpm)
    IN  LockerScopeOf(s, [s |-> afterBeatsAndBpmUpdated(set.s), r |-> TRUE])

\* Track::trySetBpm
trySetBpm(s, bpm) ==
    LET set == trySetBpmWhileLocked(lockMutex(s), bpm)
    IN  LockerScopeOf(s,
            IF ~set.r
            THEN [s |-> set.s, r |-> FALSE]
            ELSE [s |-> afterBeatsAndBpmUpdated(set.s), r |-> TRUE])

TrySetBpm ==
    \E bpm \in BpmValues : Done(trySetBpm(Cur, bpm).s)

\* Track::trySetBeats
trySetBeats(s, pBeats) ==
    LockerScopeOf(s, trySetBeatsMarkDirtyAndUnlock(lockMutex(s), pBeats, FALSE))

TrySetBeats ==
    \E pBeats \in BeatsArgs(Cur) : Done(trySetBeats(Cur, pBeats).s)

\* Track::trySetAndLockBeats
trySetAndLockBeats(s, pBeats) ==
    LockerScopeOf(s, trySetBeatsMarkDirtyAndUnlock(lockMutex(s), pBeats, TRUE))

TrySetAndLockBeats ==
    \E pBeats \in BeatsArgs(Cur) : Done(trySetAndLockBeats(Cur, pBeats).s)

\* A faulty setBpmLocked: a track that is dirty already is not marked
\* again.
setBpmLocked_markedOnlyIfClean(s, bpmLocked) ==
    LockerScope(s,
        IF s.m_record.bpmLocked # bpmLocked
        THEN LET s1 == [lockMutex(s) EXCEPT !.m_record.bpmLocked = bpmLocked]
             IN  IF s1.m_bDirty THEN unlock(s1) ELSE markDirtyAndUnlock(s1)
        ELSE lockMutex(s))

\* Track::setBpmLocked
setBpmLocked(s, bpmLocked) ==
    LockerScope(s,
        IF s.m_record.bpmLocked # bpmLocked
        THEN markDirtyAndUnlock([lockMutex(s) EXCEPT !.m_record.bpmLocked = bpmLocked])
        ELSE lockMutex(s))

SetBpmLocked ==
    \E bpmLocked \in BOOLEAN : Done(setBpmLocked(Cur, bpmLocked))

\* A faulty markDirty: the flag is set and nothing is emitted.
markDirty_flagOnly(s) == LockerScope(s, unlock([lockMutex(s) EXCEPT !.m_bDirty = TRUE]))

\* Track::markDirty
markDirty(s) == LockerScope(s, setDirtyAndUnlock(lockMutex(s), TRUE))

\* Track::isDirty
isDirty(s) == s.m_bDirty

\* Track::markClean
markClean(s) == LockerScope(s, setDirtyAndUnlock(lockMutex(s), FALSE))

MarkClean == Done(markClean(Cur))

MarkDirty == Done(markDirty(Cur))

----------------------------------------------------------------------------
(* Deferred import of beats *)

\* Track::getBeatsImportStatus
getBeatsImportStatus(s) ==
    IF s.m_pBeatsImporterPending.kind = "null"
            \/ BeatsImporter_isEmpty(s.m_pBeatsImporterPending)
    THEN "Complete"
    ELSE "Pending"

\* Track::importPendingBeatsWhileLocked
importPendingBeatsWhileLocked(s) ==
    IF s.m_pBeatsImporterPending.kind = "null"
    THEN [s |-> s, r |-> FALSE]
    ELSE IF BeatsImporter_isEmpty(s.m_pBeatsImporterPending)
    THEN [s |-> [s EXCEPT !.m_pBeatsImporterPending = nullBeatsImporter], r |-> FALSE]
    ELSE LET pBeats == importBeatsAndApplyTimingOffset(s)
         IN  setBeatsWhileLocked(
                 [s EXCEPT !.m_pBeatsImporterPending = nullBeatsImporter], pBeats)

\* A faulty tryImportPendingBeatsMarkDirtyAndUnlock: the BPM lock of the
\* record is not read before the import.
tryImportPendingBeatsMarkDirtyAndUnlock_noLockCheck(s, lockBpmAfterSet) ==
    LET imp == importPendingBeatsWhileLocked(s)
        lockChanged == imp.s.m_record.bpmLocked # lockBpmAfterSet
        s1 == [imp.s EXCEPT !.m_record.bpmLocked = lockBpmAfterSet]
    IN  IF ~(imp.r \/ lockChanged)
        THEN [s |-> s1, r |-> TRUE]
        ELSE [s |-> afterBeatsAndBpmUpdated(s1), r |-> TRUE]

\* Track::tryImportPendingBeatsMarkDirtyAndUnlock
tryImportPendingBeatsMarkDirtyAndUnlock(s, lockBpmAfterSet) ==
    IF s.m_record.bpmLocked
    THEN [s |-> s, r |-> FALSE]
    ELSE LET imp == importPendingBeatsWhileLocked(s)
             lockChanged == imp.s.m_record.bpmLocked # lockBpmAfterSet
             s1 == [imp.s EXCEPT !.m_record.bpmLocked = lockBpmAfterSet]
         IN  IF ~(imp.r \/ lockChanged)
             THEN [s |-> s1, r |-> TRUE]
             ELSE [s |-> afterBeatsAndBpmUpdated(s1), r |-> TRUE]

\* TrackRecord::hasStreamInfoFromSource
hasStreamInfoFromSource(s) == s.m_record.streamInfoFromSource # 0

\* A faulty tryImportBeats: an empty importer is not recognized and takes
\* the path of an importer that holds a grid.
tryImportBeats_noEmptyCheck(s, pBeatsImporter, lockBpmAfterSet) ==
    IF pBeatsImporter.kind = "null"
    THEN [s |-> s, r |-> "Complete"]
    ELSE LET s1 == [lockMutex(s) EXCEPT !.m_pBeatsImporterPending = pBeatsImporter]
         IN  LockerScopeOf(s,
             IF hasStreamInfoFromSource(s1)
             THEN [s |-> tryImportPendingBeatsMarkDirtyAndUnlock(s1, lockBpmAfterSet).s,
                   r |-> "Complete"]
             ELSE LET set == trySetBeatsMarkDirtyAndUnlock(s1, nullBeats, lockBpmAfterSet)
                  IN  [s |-> set.s, r |-> IF set.r THEN "Pending" ELSE "Complete"])

\* Track::tryImportBeats
tryImportBeats(s, pBeatsImporter, lockBpmAfterSet) ==
    IF pBeatsImporter.kind = "null"
    THEN [s |-> s, r |-> "Complete"]
    ELSE LET s1 == [lockMutex(s) EXCEPT !.m_pBeatsImporterPending = pBeatsImporter]
         IN  LockerScopeOf(s,
             IF BeatsImporter_isEmpty(s1.m_pBeatsImporterPending)
             THEN [s |-> [s1 EXCEPT !.m_pBeatsImporterPending = nullBeatsImporter],
                   r |-> "Complete"]
             ELSE IF hasStreamInfoFromSource(s1)
             THEN [s |-> tryImportPendingBeatsMarkDirtyAndUnlock(s1, lockBpmAfterSet).s,
                   r |-> "Complete"]
             ELSE LET set == trySetBeatsMarkDirtyAndUnlock(s1, nullBeats, lockBpmAfterSet)
                  IN  [s |-> set.s, r |-> IF set.r THEN "Pending" ELSE "Complete"])

TryImportBeats ==
    \E pBeatsImporter \in BeatsImporters, lockBpmAfterSet \in BOOLEAN :
        Done(tryImportBeats(Cur, pBeatsImporter, lockBpmAfterSet).s)

----------------------------------------------------------------------------
(* Cue points *)

\* A cue: Cue(type, hotCueIndex, startPosition, endPosition)
Cue(type, hotCueIndex, startPosition, endPosition) ==
    [type |-> type, hotCueIndex |-> hotCueIndex,
     startPosition |-> startPosition, endPosition |-> endPosition]

\* Cue::getPosition
Cue_getPosition(pCue) == pCue.startPosition

\* Cue::Cue(cueInfo, sampleRate, setDirty): the position of a cue info is
\* in milliseconds, the one of a cue in frames.
CueFromInfo(cueInfo, sampleRate) ==
    Cue(cueInfo.type,
        IF cueInfo.type = "HotCue" THEN kFirstHotCueIndex ELSE kNoHotCue,
        (cueInfo.millis * sampleRate) \div 1000,
        kInvalidFramePos)

RECURSIVE SelectCues(_, _)
\* the cues of the list for which keep[type] holds, in their order
SelectCues(cuePoints, keepTypes) ==
    IF cuePoints = <<>>
    THEN <<>>
    ELSE IF Head(cuePoints).type \in keepTypes
    THEN <<Head(cuePoints)>> \o SelectCues(Tail(cuePoints), keepTypes)
    ELSE SelectCues(Tail(cuePoints), keepTypes)

RECURSIVE MainCuePositionAfter(_, _)
\* the loop of setCuePointsWhileLocked over the new cue points: every
\* MainCue in turn sets the main cue position of the record
MainCuePositionAfter(position, cuePoints) ==
    IF cuePoints = <<>>
    THEN position
    ELSE MainCuePositionAfter(
            IF Head(cuePoints).type = "MainCue"
            THEN Cue_getPosition(Head(cuePoints))
            ELSE position,
            Tail(cuePoints))

\* Track::setCuePointsWhileLocked
setCuePointsWhileLocked(s, cuePoints) ==
    IF s.m_cuePoints = <<>> /\ cuePoints = <<>>
    THEN [s |-> s, r |-> FALSE]
    ELSE [s |-> [s EXCEPT !.m_cuePoints = cuePoints,
                          !.m_record.mainCuePosition =
                              MainCuePositionAfter(@, cuePoints)],
          r |-> TRUE]

\* Track::setCuePointsMarkDirtyAndUnlock
setCuePointsMarkDirtyAndUnlock(s, cuePoints) ==
    LET set == setCuePointsWhileLocked(s, cuePoints)
    IN  IF ~set.r
        THEN unlock(set.s)
        ELSE Emit(markDirtyAndUnlock(set.s), <<"cuesUpdated">>)

\* Track::getCueImportStatus
getCueImportStatus(s) ==
    IF s.m_pCueInfoImporterPending.kind = "null"
            \/ CueInfoImporter_isEmpty(s.m_pCueInfoImporterPending)
    THEN "Complete"
    ELSE "Pending"

\* CueInfoImporter::hasCueOfType: the types the importer holds
ImportedTypes(imp) == {imp.infos[i].type : i \in DOMAIN imp.infos}

\* Track::importPendingCueInfosWhileLocked
importPendingCueInfosWhileLocked(s) ==
    IF s.m_pCueInfoImporterPending.kind = "null"
    THEN [s |-> s, r |-> FALSE]
    ELSE IF CueInfoImporter_isEmpty(s.m_pCueInfoImporterPending)
    THEN [s |-> [s EXCEPT !.m_pCueInfoImporterPending = nullCueInfoImporter], r |-> FALSE]
    ELSE LET imp == s.m_pCueInfoImporterPending
             sampleRate == s.m_record.streamInfoFromSource
             preserved == SelectCues(s.m_cuePoints, CueTypes \ ImportedTypes(imp))
             cuePoints == preserved \o
                 [i \in DOMAIN imp.infos |-> CueFromInfo(imp.infos[i], sampleRate)]
         IN  setCuePointsWhileLocked(
                 [s EXCEPT !.m_pCueInfoImporterPending = nullCueInfoImporter], cuePoints)

\* Track::importPendingCueInfosMarkDirtyAndUnlock
importPendingCueInfosMarkDirtyAndUnlock(s) ==
    LET imp == importPendingCueInfosWhileLocked(s)
    IN  IF ~imp.r
        THEN unlock(imp.s)
        ELSE Emit(markDirtyAndUnlock(imp.s), <<"cuesUpdated">>)

\* A faulty importCueInfos: without stream info the importer is stashed and
\* the existing cues are kept.
importCueInfos_cuesKept(s, pCueInfoImporter) ==
    IF pCueInfoImporter.kind = "null"
    THEN [s |-> s, r |-> "Complete"]
    ELSE LET s1 == [lockMutex(s) EXCEPT !.m_pCueInfoImporterPending = pCueInfoImporter]
         IN  LockerScopeOf(s,
             IF CueInfoImporter_isEmpty(s1.m_pCueInfoImporterPending)
             THEN [s |-> [s1 EXCEPT !.m_pCueInfoImporterPending = nullCueInfoImporter],
                   r |-> "Complete"]
             ELSE IF hasStreamInfoFromSource(s1)
             THEN [s |-> importPendingCueInfosMarkDirtyAndUnlock(s1), r |-> "Complete"]
             ELSE [s |-> s1, r |-> "Pending"])

\* Track::importCueInfos
importCueInfos(s, pCueInfoImporter) ==
    IF pCueInfoImporter.kind = "null"
    THEN [s |-> s, r |-> "Complete"]
    ELSE LET s1 == [lockMutex(s) EXCEPT !.m_pCueInfoImporterPending = pCueInfoImporter]
         IN  LockerScopeOf(s,
             IF CueInfoImporter_isEmpty(s1.m_pCueInfoImporterPending)
             THEN [s |-> [s1 EXCEPT !.m_pCueInfoImporterPending = nullCueInfoImporter],
                   r |-> "Complete"]
             ELSE IF hasStreamInfoFromSource(s1)
             THEN [s |-> importPendingCueInfosMarkDirtyAndUnlock(s1), r |-> "Complete"]
             ELSE [s |-> setCuePointsMarkDirtyAndUnlock(s1, <<>>), r |-> "Pending"])

\* the number of cues the collection holds once the pending importer of s1
\* has been applied
CuesAfterImport(s, imp) ==
    Len(SelectCues(s.m_cuePoints, CueTypes \ ImportedTypes(imp))) + Len(imp.infos)

ImportCueInfosOf(importers) ==
    \E pCueInfoImporter \in importers :
        /\ CuesAfterImport(Cur, pCueInfoImporter) <= MaxCues
        /\ Done(importCueInfos(Cur, pCueInfoImporter).s)

----------------------------------------------------------------------------
(* Cue operations *)

\* Track::slotCueUpdated, the slot connected to Cue::updated
slotCueUpdated(s) == Emit(markDirty(s), <<"cuesUpdated">>)

\* Track::findCueByType: the index of the first cue of the type, 0 if none
findCueByType(s, type) ==
    IF type = "HotCue" \/ \A i \in DOMAIN s.m_cuePoints : s.m_cuePoints[i].type # type
    THEN 0
    ELSE CHOOSE i \in DOMAIN s.m_cuePoints :
            /\ s.m_cuePoints[i].type = type
            /\ \A j \in 1..(i - 1) : s.m_cuePoints[j].type # type

\* QList::removeAt
RemoveAt(list, i) == SubSeq(list, 1, i - 1) \o SubSeq(list, i + 1, Len(list))

\* Track::setMainCuePosition
setMainCuePosition(s, position) ==
    IF s.m_record.mainCuePosition = position
    THEN s
    ELSE LET s1 == [lockMutex(s) EXCEPT !.m_record.mainCuePosition = position]
             iLoadCue == findCueByType(s1, "MainCue")
             s2 == IF PosIsValid(position)
                   THEN IF iLoadCue # 0
                        THEN IF s1.m_cuePoints[iLoadCue].startPosition # position
                             THEN slotCueUpdated(
                                    [s1 EXCEPT !.m_cuePoints[iLoadCue].startPosition = position])
                             ELSE s1
                        ELSE [s1 EXCEPT !.m_cuePoints =
                                Append(@, Cue("MainCue", kNoHotCue, position, kInvalidFramePos))]
                   ELSE IF iLoadCue # 0
                        THEN [s1 EXCEPT !.m_cuePoints = RemoveAt(@, iLoadCue)]
                        ELSE s1
         IN  LockerScope(s, Emit(markDirtyAndUnlock(s2), <<"cuesUpdated">>))

SetMainCuePosition ==
    \E position \in Positions :
        /\ Len(m_cuePoints) < MaxCues \/ findCueByType(Cur, "MainCue") # 0
        /\ Done(setMainCuePosition(Cur, position))

\* SignalInfo::millis2frames
millis2frames(sampleRate, milliseconds) == (milliseconds * sampleRate) \div 1000

\* Cue::shiftPositionFrames
shiftPositionFrames(pCue, frames) ==
    [pCue EXCEPT
        !.startPosition = IF PosIsValid(@) THEN @ + frames ELSE @,
        !.endPosition = IF PosIsValid(@) THEN @ + frames ELSE @]

\* A faulty shiftCuePositionsMillis: the stream info is not required.
shiftCuePositionsMillis_streamInfoNotChecked(s, milliseconds) ==
    LET frames == millis2frames(s.m_record.streamInfoFromSource, milliseconds)
    IN  LockerScope(s, markDirtyAndUnlock(
            [lockMutex(s) EXCEPT !.m_cuePoints =
                [i \in DOMAIN @ |-> shiftPositionFrames(@[i], frames)]]))

\* Track::shiftCuePositionsMillis
shiftCuePositionsMillis(s, milliseconds) ==
    IF ~hasStreamInfoFromSource(s)
    THEN s
    ELSE LET frames == millis2frames(s.m_record.streamInfoFromSource, milliseconds)
         IN  LockerScope(s, markDirtyAndUnlock(
                [lockMutex(s) EXCEPT !.m_cuePoints =
                    [i \in DOMAIN @ |-> shiftPositionFrames(@[i], frames)]]))

ShiftCuePositionsMillis ==
    \E milliseconds \in {-1000, 0, 1000} :
        LET s == shiftCuePositionsMillis(Cur, milliseconds)
        IN  /\ \A i \in DOMAIN s.m_cuePoints :
                    /\ s.m_cuePoints[i].startPosition \in Positions
                    /\ s.m_cuePoints[i].endPosition \in Positions
                    /\ PosIsValid(m_cuePoints[i].startPosition)
                            => PosIsValid(s.m_cuePoints[i].startPosition)
                    /\ PosIsValid(m_cuePoints[i].endPosition)
                            => PosIsValid(s.m_cuePoints[i].endPosition)
            /\ Done(s)

\* A faulty createAndAddCue: the positions are not checked.
createAndAddCue_positionsNotChecked(s, type, hotCueIndex, startPosition, endPosition) ==
    IF ~(hotCueIndex = kNoHotCue \/ hotCueIndex >= kFirstHotCueIndex)
    THEN [s |-> s, r |-> FALSE]
    ELSE [s |-> LockerScope(s, Emit(markDirtyAndUnlock(
                    [lockMutex(s) EXCEPT !.m_cuePoints =
                        Append(@, Cue(type, hotCueIndex, startPosition, endPosition))]),
                <<"cuesUpdated">>)),
          r |-> TRUE]

\* Track::createAndAddCue: r is TRUE when a cue has been created
createAndAddCue(s, type, hotCueIndex, startPosition, endPosition) ==
    IF ~(hotCueIndex = kNoHotCue \/ hotCueIndex >= kFirstHotCueIndex)
    THEN [s |-> s, r |-> FALSE]
    ELSE IF ~(PosIsValid(startPosition) \/ PosIsValid(endPosition))
    THEN [s |-> s, r |-> FALSE]
    ELSE [s |-> LockerScope(s, Emit(markDirtyAndUnlock(
                    [lockMutex(s) EXCEPT !.m_cuePoints =
                        Append(@, Cue(type, hotCueIndex, startPosition, endPosition))]),
                <<"cuesUpdated">>)),
          r |-> TRUE]

\* The arguments of createAndAddCue: a main cue or the first hot cue at a
\* start position, a hot cue that has only an end position, and the
\* arguments the function rejects.
CreateCueArgs ==
    {<<"MainCue", h, p, kInvalidFramePos>> : h \in {-2, kNoHotCue}, p \in Positions}
        \cup {<<"HotCue", h, p, kInvalidFramePos>> : h \in {-2, kFirstHotCueIndex}, p \in Positions}
        \cup {<<"HotCue", kFirstHotCueIndex, kInvalidFramePos, MaxPos>>}

CreateAndAddCue ==
    \E a \in CreateCueArgs :
        /\ Len(m_cuePoints) < MaxCues
        /\ Done(createAndAddCue(Cur, a[1], a[2], a[3], a[4]).s)

\* Track::removeCue of the cue at index i of the collection
removeCue(s, i) ==
    LET pCue == s.m_cuePoints[i]
        s1 == [lockMutex(s) EXCEPT !.m_cuePoints = RemoveAt(@, i)]
        s2 == IF pCue.type = "MainCue"
              THEN [s1 EXCEPT !.m_record.mainCuePosition = kStartFramePos]
              ELSE s1
    IN  LockerScope(s, Emit(markDirtyAndUnlock(s2), <<"cuesUpdated">>))

RemoveCue ==
    \E i \in DOMAIN m_cuePoints :
        Done(removeCue(Cur, i))

\* A faulty removeCuesOfType: it removes hot cues only.
removeCuesOfType_hotCuesOnly(s, type) ==
    LET kept == SelectCues(s.m_cuePoints, CueTypes \ ({type} \cap {"HotCue"}))
        removed == Len(kept) # Len(s.m_cuePoints)
        positionSet == s.m_record.mainCuePosition # kStartFramePos
        s1 == [lockMutex(s) EXCEPT !.m_cuePoints = kept,
                                   !.m_record.mainCuePosition = kStartFramePos]
    IN  LockerScope(s,
            IF removed \/ positionSet
            THEN Emit(markDirtyAndUnlock(s1), <<"cuesUpdated">>)
            ELSE s1)

\* A faulty removeCuesOfType: the main cue position of the record is reset
\* for the type MainCue only.
removeCuesOfType_positionOfMainCueOnly(s, type) ==
    LET kept == SelectCues(s.m_cuePoints, CueTypes \ {type})
        removed == Len(kept) # Len(s.m_cuePoints)
        positionSet == type = "MainCue" /\ s.m_record.mainCuePosition # kStartFramePos
        s1 == [lockMutex(s) EXCEPT !.m_cuePoints = kept,
                                   !.m_record.mainCuePosition =
                                        IF type = "MainCue" THEN kStartFramePos ELSE @]
    IN  LockerScope(s,
            IF removed \/ positionSet
            THEN Emit(markDirtyAndUnlock(s1), <<"cuesUpdated">>)
            ELSE s1)

\* Track::removeCuesOfType
removeCuesOfType(s, type) ==
    LET kept == SelectCues(s.m_cuePoints, CueTypes \ {type})
        removed == Len(kept) # Len(s.m_cuePoints)
        positionSet == s.m_record.mainCuePosition # kStartFramePos
        s1 == [lockMutex(s) EXCEPT !.m_cuePoints = kept,
                                   !.m_record.mainCuePosition = kStartFramePos]
    IN  LockerScope(s,
            IF removed \/ positionSet
            THEN Emit(markDirtyAndUnlock(s1), <<"cuesUpdated">>)
            ELSE s1)

RemoveCuesOfType ==
    \E type \in CueTypes :
        Done(removeCuesOfType(Cur, type))

\* The cues a caller passes to setCuePoints
CueArgs ==
    {Cue(a[1], a[2], a[3], a[4]) : a \in
        {a \in CreateCueArgs :
            /\ a[2] = kNoHotCue \/ a[2] >= kFirstHotCueIndex
            /\ PosIsValid(a[3]) \/ PosIsValid(a[4])}}

CueLists ==
    {<<>>} \cup UNION {[1..n -> CueArgs] : n \in 1..MaxCues}

\* Track::setCuePoints
setCuePoints(s, cuePoints) ==
    LockerScope(s, setCuePointsMarkDirtyAndUnlock(lockMutex(s), cuePoints))

SetCuePoints ==
    \E cuePoints \in CueLists : Done(setCuePoints(Cur, cuePoints))

----------------------------------------------------------------------------
(* Stream info *)

\* TrackRecord::updateStreamInfoFromSource: r is TRUE when the stream info
\* of the metadata has changed
Record_updateStreamInfoFromSource(s, sampleRate) ==
    [s |-> [s EXCEPT !.m_record.streamInfoFromSource = sampleRate,
                     !.m_record.sampleRate = sampleRate],
     r |-> s.m_record.sampleRate # sampleRate]

\* Track::updateStreamInfoFromSource
updateStreamInfoFromSource(s, streamInfo) ==
    LET upd == Record_updateStreamInfoFromSource(lockMutex(s), streamInfo)
        s1 == upd.s
        updated == upd.r
        importBeats == getBeatsImportStatus(s1) = "Pending"
        importCues == getCueImportStatus(s1) = "Pending"
    IN  LockerScope(s,
        IF ~importBeats /\ ~importCues
        THEN IF updated
             THEN Emit(markDirtyAndUnlock(s1), <<"durationChanged">>)
             ELSE s1
        ELSE LET beats == IF importBeats
                          THEN importPendingBeatsWhileLocked(s1)
                          ELSE [s |-> s1, r |-> FALSE]
                 cues == IF importCues
                         THEN importPendingCueInfosWhileLocked(beats.s)
                         ELSE [s |-> beats.s, r |-> FALSE]
                 s2 == cues.s
             IN  IF ~beats.r /\ ~cues.r
                 THEN s2
                 ELSE LET s3 == IF beats.r
                                THEN afterBeatsAndBpmUpdated(s2)
                                ELSE Emit(markDirtyAndUnlock(s2), <<"durationChanged">>)
                      IN  IF cues.r THEN Emit(s3, <<"cuesUpdated">>) ELSE s3)

UpdateStreamInfoFromSource ==
    \E streamInfo \in SampleRates :
        /\ CuesAfterImport(Cur, m_pCueInfoImporterPending) <= MaxCues
        /\ Done(updateStreamInfoFromSource(Cur, streamInfo))

----------------------------------------------------------------------------
(* The texts and the identifier *)

\* QChar::isSpace
Whitespace == {" ", "\t", "\n"}

\* QString::trimmed: a text is a sequence of characters
trimmed(text) ==
    LET kept == {i \in DOMAIN text : text[i] \notin Whitespace}
    IN  IF kept = {}
        THEN <<>>
        ELSE SubSeq(text,
                    CHOOSE i \in kept : \A j \in kept : i <= j,
                    CHOOSE i \in kept : \A j \in kept : j <= i)

\* the texts a caller passes to setTitle and setArtist
TextArgs ==
    {<<>>, <<" ">>,
     <<"T", "e", "s", "t">>, <<" ", "T", "e", "s", "t">>,
     <<"A", "r", "t", "i", "s", "t">>, <<"A", "r", "t", "i", "s", "t", " ", "\n">>}

\* Track::getTitle
getTitle(s) == s.m_record.title

\* Track::setTitle
setTitle(s, text) ==
    LET value == trimmed(text)
        s1 == lockMutex(s)
    IN  LockerScope(s,
        IF s1.m_record.title # value
        THEN LET s2 == markDirtyAndUnlock([s1 EXCEPT !.m_record.title = value])
             IN  Emit(EmitWith(s2, "titleChanged", value), <<"infoChanged">>)
        ELSE s1)

SetTitle == \E text \in TextArgs : Done(setTitle(Cur, text))

\* Track::getArtist
getArtist(s) == s.m_record.artist

\* Track::setArtist
setArtist(s, text) ==
    LET value == trimmed(text)
        s1 == lockMutex(s)
    IN  LockerScope(s,
        IF s1.m_record.artist # value
        THEN LET s2 == markDirtyAndUnlock([s1 EXCEPT !.m_record.artist = value])
             IN  Emit(EmitWith(s2, "artistChanged", value), <<"infoChanged">>)
        ELSE s1)

SetArtist == \E text \in TextArgs : Done(setArtist(Cur, text))

\* Track::getId
getId(s) == s.m_record.id

\* A faulty initId: the track with its new identifier is taken as stored
\* and so as clean.
initId_clean(s, id) ==
    LET s1 == lockMutex(s)
    IN  LockerScope(s,
        IF s1.m_record.id = id
        THEN s1
        ELSE IF TrackIdIsValid(s1.m_record.id)
        THEN s1
        ELSE [s1 EXCEPT !.m_record.id = id, !.m_bDirty = FALSE])

\* Track::initId
initId(s, id) ==
    LET s1 == lockMutex(s)
    IN  LockerScope(s,
        IF s1.m_record.id = id
        THEN s1
        ELSE IF TrackIdIsValid(s1.m_record.id)
        THEN s1
        ELSE [s1 EXCEPT !.m_record.id = id])

InitId == \E id \in AllTrackIds : TrackIdIsValid(id) /\ Done(initId(Cur, id))

\* A faulty resetId: the track that has lost its identifier is taken as
\* clean.
resetId_clean(s) ==
    LockerScope(s, [lockMutex(s) EXCEPT !.m_record.id = kInvalidTrackId,
                                        !.m_bDirty = FALSE])

\* A faulty resetId: the track that has lost its identifier is marked dirty.
resetId_markedDirty(s) ==
    LockerScope(s, markDirtyAndUnlock([lockMutex(s) EXCEPT !.m_record.id = kInvalidTrackId]))

\* Track::resetId
resetId(s) == LockerScope(s, [lockMutex(s) EXCEPT !.m_record.id = kInvalidTrackId])

\* Track::relocate: m_fileAccess, the location of the file, is not part of
\* the model
relocate(s, fileAccess) == LockerScope(s, lockMutex(s))

\* Track::setDateAdded: the date of the record is not part of the model
setDateAdded(s, dateAdded) == LockerScope(s, lockMutex(s))

ResetId == Done(resetId(Cur))

----------------------------------------------------------------------------
(* Replacing the record and the metadata *)

\* Track::emitChangedSignalsForAllMetadata
emitChangedSignalsForAllMetadata(s) ==
    LET s1 == EmitWith(s, "artistChanged", getArtist(s))
        s2 == EmitWith(s1, "titleChanged", getTitle(s1))
    IN  Emit(s2, <<"albumChanged", "albumArtistChanged",
              "genreChanged", "composerChanged", "groupingChanged", "yearChanged",
              "trackNumberChanged", "trackTotalChanged", "commentChanged",
              "bpmChanged", "timesPlayedChanged", "durationChanged", "infoChanged",
              "keyChanged">>)

\* Track::replaceRecord. otherChanged: newRecord differs from m_record in a
\* field that is not part of the model's record (a tag text, the key, the
\* replay gain, the color, ...); the signals of those fields are not part
\* of emitted.
replaceRecord(s, newRecord, otherChanged, pOptionalBeats) ==
    LET recordUnchanged == s.m_record = newRecord /\ ~otherChanged
    IN  LockerScopeOf(s,
        IF recordUnchanged /\ pOptionalBeats.addr = kNullAddr
        THEN [s |-> s, r |-> FALSE]
        ELSE LET set == IF pOptionalBeats.addr # kNullAddr
                        THEN trySetBeatsWhileLocked(lockMutex(s), pOptionalBeats, FALSE)
                        ELSE trySetBpmWhileLocked(lockMutex(s), newRecord.bpm)
                 bpmUpdatedFlag == set.r
             IN  IF pOptionalBeats.addr # kNullAddr /\ recordUnchanged /\ ~bpmUpdatedFlag
                 THEN [s |-> set.s, r |-> FALSE]
                 ELSE LET newBpm == set.s.m_record.bpm
                          s1 == [set.s EXCEPT !.m_record = [newRecord EXCEPT !.bpm = newBpm]]
                          s2 == markDirtyAndUnlock(s1)
                          s3 == IF bpmUpdatedFlag THEN emitBeatsAndBpmUpdated(s2) ELSE s2
                      IN  [s |-> emitChangedSignalsForAllMetadata(s3), r |-> TRUE])

\* The records a caller passes to replaceRecord.  The function reads the
\* tempo of the new record and compares the records; every other field is
\* copied.  So the new record is the current one with another tempo and
\* BPM lock, or with another main cue position, or without the stream info
\* from the source (a record read from the database), or a new record.
TempoRecordArgs(s) ==
    {[s.m_record EXCEPT !.bpm = b, !.bpmLocked = l] : b \in BpmValues, l \in BOOLEAN}

OtherRecordArgs(s) ==
    {[s.m_record EXCEPT !.mainCuePosition = p] : p \in Positions}
        \cup {[s.m_record EXCEPT !.streamInfoFromSource = 0]}
        \cup {[id |-> trackId,
               bpm |-> kValueUndefined,
               bpmLocked |-> FALSE,
               mainCuePosition |-> kStartFramePos,
               streamInfoFromSource |-> 0,
               sampleRate |-> 0,
               title |-> <<>>,
               artist |-> <<>>] : trackId \in TrackIds}

ReplaceRecordOf(records, beats) ==
    \E newRecord \in records, pOptionalBeats \in beats, otherChanged \in BOOLEAN :
        /\ otherChanged => newRecord = m_record
        /\ Done(replaceRecord(Cur, newRecord, otherChanged, pOptionalBeats).s)

\* replaceRecord without a grid, and with a grid: then the function does
\* not read the tempo of the new record
ReplaceRecord ==
    \/ ReplaceRecordOf(TempoRecordArgs(Cur) \cup OtherRecordArgs(Cur), {nullBeats})
    \/ ReplaceRecordOf({[m_record EXCEPT !.bpmLocked = l] : l \in BOOLEAN},
                       BeatsArgs(Cur) \ {nullBeats})

\* The records of other rows of the database: another identifier, title
\* and artist
MetaRecordArgs(s) ==
    {[s.m_record EXCEPT !.id = id, !.title = trimmed(title), !.artist = trimmed(artist)] :
        id \in AllTrackIds, title \in TextArgs, artist \in TextArgs}

\* replaceRecord with the record of a row of the database and no grid
ReplaceRecordOfRow ==
    ReplaceRecordOf(MetaRecordArgs(Cur), {nullBeats})

\* replaceRecord with a record of the same tempo and no grid
ReplaceRecordSameTempo ==
    ReplaceRecordOf(OtherRecordArgs(Cur), {nullBeats})

\* TrackRecord::replaceMetadataFromSource: the stream info from the source
\* is preserved when it is known. otherModified: the imported metadata or
\* the synchronization time stamp differ in a field that is not part of
\* the model's record.
Record_replaceMetadataFromSource(s, importedMetadata, otherModified) ==
    LET imported == IF hasStreamInfoFromSource(s)
                    THEN [importedMetadata EXCEPT !.sampleRate = s.m_record.streamInfoFromSource]
                    ELSE importedMetadata
    IN  [s |-> [s EXCEPT !.m_record.bpm = imported.bpm,
                         !.m_record.sampleRate = imported.sampleRate,
                         !.m_record.title = imported.title,
                         !.m_record.artist = imported.artist],
         r |-> \/ s.m_record.bpm # imported.bpm
               \/ s.m_record.sampleRate # imported.sampleRate
               \/ s.m_record.title # imported.title
               \/ s.m_record.artist # imported.artist
               \/ otherModified]

\* A faulty replaceMetadataFromSource: the Serato beats and cues are
\* imported within the locking scope of the merge, before its signals.
replaceMetadataFromSource_importLocked(s, importedMetadata, otherModified, pSeratoBeatsImporter, seratoBpmLocked, pSeratoCuesImporter) ==
    LET importedBpm == importedMetadata.bpm
        preserved == [importedMetadata EXCEPT !.bpm = s.m_record.bpm]
        rep == Record_replaceMetadataFromSource(lockMutex(s), preserved, otherModified)
        set == IF BpmIsValid(importedBpm)
                    /\ (rep.s.m_pBeats.addr = kNullAddr \/ ~BpmIsValid(rep.s.m_pBeats.bpm))
               THEN trySetBpmWhileLocked(rep.s, importedBpm)
               ELSE [s |-> rep.s, r |-> FALSE]
        beatsAndBpmModified == set.r
        modified == rep.r \/ beatsAndBpmModified
    IN  IF ~modified
        THEN LockerScope(s, set.s)
        ELSE LET s1 == IF pSeratoBeatsImporter.kind # "null"
                       THEN tryImportBeats(set.s, pSeratoBeatsImporter, seratoBpmLocked).s
                       ELSE set.s
                 s2 == IF pSeratoCuesImporter.kind # "null"
                       THEN importCueInfos(s1, pSeratoCuesImporter).s
                       ELSE s1
                 s3 == markDirtyAndUnlock(s2)
                 s4 == IF beatsAndBpmModified THEN emitBeatsAndBpmUpdated(s3) ELSE s3
             IN  emitChangedSignalsForAllMetadata(s4)

\* Track::replaceMetadataFromSource. importedMetadata is [bpm, sampleRate,
\* title, artist], the tempo, the stream info and the texts of the file tags; the importers and
\* seratoBpmLocked are the ones of its Serato tags.  The key, the replay
\* gain and the color are not part of the model's record.
replaceMetadataFromSource(s, importedMetadata, otherModified, pSeratoBeatsImporter, seratoBpmLocked, pSeratoCuesImporter) ==
    LET importedBpm == importedMetadata.bpm
        \* getBpmWhileLocked()
        preserved == [importedMetadata EXCEPT !.bpm = s.m_record.bpm]
        rep == Record_replaceMetadataFromSource(lockMutex(s), preserved, otherModified)
        set == IF BpmIsValid(importedBpm)
                    /\ (rep.s.m_pBeats.addr = kNullAddr \/ ~BpmIsValid(rep.s.m_pBeats.bpm))
               THEN trySetBpmWhileLocked(rep.s, importedBpm)
               ELSE [s |-> rep.s, r |-> FALSE]
        beatsAndBpmModified == set.r
        modified == rep.r \/ beatsAndBpmModified
    IN  IF ~modified
        THEN LockerScope(s, set.s)
        ELSE LET s1 == markDirtyAndUnlock(set.s)
                 s2 == IF beatsAndBpmModified THEN emitBeatsAndBpmUpdated(s1) ELSE s1
                 s3 == emitChangedSignalsForAllMetadata(s2)
                 s4 == IF pSeratoBeatsImporter.kind # "null"
                       THEN tryImportBeats(s3, pSeratoBeatsImporter, seratoBpmLocked).s
                       ELSE s3
             IN  IF pSeratoCuesImporter.kind # "null"
                 THEN importCueInfos(s4, pSeratoCuesImporter).s
                 ELSE s4

\* The cue importers of the Serato tags of imported metadata
SeratoCueImporters ==
    {nullCueInfoImporter,
     [kind |-> "importer", infos |-> <<>>],
     [kind |-> "importer", infos |-> <<[type |-> "HotCue", millis |-> 0]>>]}

\* The tempo and the sample rate of the file tags; their title and artist
\* are the ones of the track, and otherModified stands for another text
ImportedMetadataArgs(s) ==
    [bpm : BpmValues, sampleRate : {0, MaxRate},
     title : {s.m_record.title}, artist : {s.m_record.artist}]

\* The beats importer, the BPM lock and the cue importer of the Serato tags
\* of imported metadata
SeratoArgs ==
    {<<nullBeatsImporter, FALSE, nullCueInfoImporter>>,
     <<emptyBeatsImporter, FALSE, nullCueInfoImporter>>,
     <<nullBeatsImporter, FALSE, [kind |-> "importer", infos |-> <<[type |-> "HotCue", millis |-> 0]>>]>>}
        \cup {<<[kind |-> "data", bpm |-> MaxBpm, firstBeat |-> kStartFramePos], l, c>> :
                l \in BOOLEAN,
                c \in {nullCueInfoImporter,
                       [kind |-> "importer", infos |-> <<[type |-> "HotCue", millis |-> 0]>>]}}

\* Serato tags are part of the imported metadata: with them otherModified
\* is taken as true.  (A call that does not modify the metadata ignores
\* the importers, and is the call without Serato tags.)
ReplaceMetadataFromSource ==
    \E importedMetadata \in ImportedMetadataArgs(Cur),
       serato \in SeratoArgs,
       otherModified \in BOOLEAN :
        /\ otherModified \/ (serato[1].kind = "null" /\ serato[3].kind = "null")
        /\ CuesAfterImport(Cur, serato[3]) <= MaxCues
        /\ Done(replaceMetadataFromSource(Cur, importedMetadata, otherModified,
                    serato[1], serato[2], serato[3]))

----------------------------------------------------------------------------
(* Export of the metadata into the file *)

\* A faulty markForMetadataExport: the flag is not set.
markForMetadataExport_flagNotSet(s) == LockerScope(s, lockMutex(s))

\* Track::markForMetadataExport
markForMetadataExport(s) ==
    LockerScope(s, [lockMutex(s) EXCEPT !.m_bMarkedForMetadataExport = TRUE])

MarkForMetadataExport == Done(markForMetadataExport(Cur))

\* A faulty exportMetadata: the metadata of a track that is neither marked
\* nor synchronized are exported like the ones of a synchronized track.
exportMetadata_synchronizedNotChecked(s, sourceSynchronized, seratoExport, importResult, tagsModified, exportResult) ==
    LET s1 == lockMutex(s)
    IN  LockerScopeOf(s,
        IF seratoExport /\ ~hasStreamInfoFromSource(s1)
        THEN [s |-> s1, r |-> "Skipped", synchronizedAt |-> FALSE]
        ELSE LET s2 == Io(s1, "importTrackMetadataAndCoverImage")
             IN  IF importResult = "Succeeded" /\ ~s2.m_bMarkedForMetadataExport /\ ~tagsModified /\ sourceSynchronized
                 THEN [s |-> s2, r |-> "Skipped", synchronizedAt |-> FALSE]
                 ELSE IF importResult # "Succeeded" /\ ~s2.m_bMarkedForMetadataExport
                 THEN [s |-> s2, r |-> "Skipped", synchronizedAt |-> FALSE]
                 ELSE LET s3 == Io([s2 EXCEPT !.m_bMarkedForMetadataExport = FALSE],
                                   "exportTrackMetadata")
                      IN  [s |-> s3,
                           r |-> IF exportResult = "Succeeded" THEN "Succeeded"
                                 ELSE IF exportResult = "Unsupported" THEN "Skipped"
                                 ELSE "Failed",
                           synchronizedAt |-> exportResult = "Succeeded"])

\* A faulty exportMetadata: a write that does not succeed keeps the mark.
exportMetadata_markKeptOnFailure(s, sourceSynchronized, seratoExport, importResult, tagsModified, exportResult) ==
    LET s1 == lockMutex(s)
    IN  LockerScopeOf(s,
        IF ~s1.m_bMarkedForMetadataExport /\ ~sourceSynchronized
        THEN [s |-> s1, r |-> "Skipped", synchronizedAt |-> FALSE]
        ELSE IF seratoExport /\ ~hasStreamInfoFromSource(s1)
        THEN [s |-> s1, r |-> "Skipped", synchronizedAt |-> FALSE]
        ELSE LET s2 == Io(s1, "importTrackMetadataAndCoverImage")
             IN  IF importResult = "Succeeded" /\ ~s2.m_bMarkedForMetadataExport /\ ~tagsModified
                 THEN [s |-> s2, r |-> "Skipped", synchronizedAt |-> FALSE]
                 ELSE IF importResult # "Succeeded" /\ ~s2.m_bMarkedForMetadataExport
                 THEN [s |-> s2, r |-> "Skipped", synchronizedAt |-> FALSE]
                 ELSE LET s3 == Io([s2 EXCEPT !.m_bMarkedForMetadataExport =
                                        @ /\ exportResult # "Succeeded"],
                                   "exportTrackMetadata")
                      IN  [s |-> s3,
                           r |-> IF exportResult = "Succeeded" THEN "Succeeded"
                                 ELSE IF exportResult = "Unsupported" THEN "Skipped"
                                 ELSE "Failed",
                           synchronizedAt |-> exportResult = "Succeeded"])

\* Track::exportMetadata.  sourceSynchronized is what
\* m_record.isSourceSynchronized() returns, seratoExport the setting
\* kSeratoMetadataExportConfigKey, importResult and exportResult what the
\* metadata source returns, tagsModified what anyFileTagsModified returns
\* for the tags of the file.  The Serato tags, the extra metadata merged
\* from the file and the synchronization time stamp are not part of the
\* model's record: synchronizedAt tells whether the call has updated the
\* time stamp (m_record.updateSourceSynchronizedAt).
exportMetadata(s, sourceSynchronized, seratoExport, importResult, tagsModified, exportResult) ==
    LET s1 == lockMutex(s)
    IN  LockerScopeOf(s,
        IF ~s1.m_bMarkedForMetadataExport /\ ~sourceSynchronized
        THEN [s |-> s1, r |-> "Skipped", synchronizedAt |-> FALSE]
        ELSE IF seratoExport /\ ~hasStreamInfoFromSource(s1)
        THEN [s |-> s1, r |-> "Skipped", synchronizedAt |-> FALSE]
        ELSE LET s2 == Io(s1, "importTrackMetadataAndCoverImage")
             IN  IF importResult = "Succeeded" /\ ~s2.m_bMarkedForMetadataExport /\ ~tagsModified
                 THEN [s |-> s2, r |-> "Skipped", synchronizedAt |-> FALSE]
                 ELSE IF importResult # "Succeeded" /\ ~s2.m_bMarkedForMetadataExport
                 THEN [s |-> s2, r |-> "Skipped", synchronizedAt |-> FALSE]
                 ELSE LET s3 == Io([s2 EXCEPT !.m_bMarkedForMetadataExport = FALSE],
                                   "exportTrackMetadata")
                      IN  [s |-> s3,
                           r |-> IF exportResult = "Succeeded" THEN "Succeeded"
                                 ELSE IF exportResult = "Unsupported" THEN "Skipped"
                                 ELSE "Failed",
                           synchronizedAt |-> exportResult = "Succeeded"])

\* what the caller and the metadata source pass to exportMetadata
ExportArgs ==
    [sourceSynchronized : BOOLEAN, seratoExport : BOOLEAN,
     importResult : {"Succeeded", "Failed"}, tagsModified : BOOLEAN,
     exportResult : {"Succeeded", "Unsupported", "Failed"}]

ExportMetadata ==
    \E a \in ExportArgs :
        Done(exportMetadata(Cur, a.sourceSynchronized, a.seratoExport, a.importResult,
                a.tagsModified, a.exportResult).s)

----------------------------------------------------------------------------
(* Two threads: an operation of one thread between its unlock and its emit *)

\* no operation is between its unlock and its emit
noEmission == [op |-> "none", value |-> <<>>]

\* the argument of the first signal of a name among emitted
ArgOf(signal, emitted) == SignalsOf(emitted, {signal})[1].arg

\* Track::setTitle up to the unlock in markDirtyAndUnlock: value, the
\* argument of its titleChanged, is a local variable of the call
SetTitleUnlocked ==
    \E text \in TextArgs :
        LET t == setTitle(Cur, text)
        IN  /\ emitting.op = "none"
            /\ t.emitted # <<>>
            /\ Assigned(t)
            /\ emitting' = [op |-> "setTitle", value |-> ArgOf("titleChanged", t.emitted)]
            /\ UNCHANGED <<delivered, reading>>

\* Track::replaceRecord, with a record of another title, up to the unlock
\* in markDirtyAndUnlock
ReplaceRecordUnlocked ==
    \E text \in TextArgs :
        LET newRecord == [m_record EXCEPT !.title = trimmed(text)]
            res == replaceRecord(Cur, newRecord, FALSE, nullBeats)
        IN  /\ emitting.op = "none"
            /\ res.r
            /\ Assigned(res.s)
            /\ emitting' = [op |-> "replaceRecord", value |-> newRecord.title]
            /\ UNCHANGED <<delivered, reading>>

\* emit titleChanged of the operation that has unlocked: setTitle emits its
\* local value, replaceRecord emits in emitChangedSignalsForAllMetadata
\* what getTitle() returns by then
EmitTitleChanged ==
    /\ emitting.op # "none"
    /\ delivered' =
        [written |-> emitting.value,
         arg |-> IF emitting.op = "setTitle"
                 THEN emitting.value
                 ELSE ArgOf("titleChanged", emitChangedSignalsForAllMetadata(Cur).emitted)]
    /\ emitting' = noEmission
    /\ Assigned(Cur)
    /\ UNCHANGED reading

\* A faulty getRecord: *pDirty is assigned without the mutex.
getRecordLocked_mutexNotTaken(s) == [pc |-> "unlocked", dirty |-> s.m_bDirty]

\* Track::getRecord up to the assignment of *pDirty: the thread holds the
\* mutex from there to its return
getRecordLocked(s) ==
    [pc |-> IF lockMutex(s).lock > s.lock THEN "locked" ELSE "unlocked",
     dirty |-> lockMutex(s).m_bDirty]

\* a thread calls getRecord(&dirty) and has assigned *pDirty
GetRecordDirty ==
    /\ reading.pc \in {"idle", "done"}
    /\ reading' = [pc |-> getRecordLocked(Cur).pc,
                   dirty |-> getRecordLocked(Cur).dirty,
                   record |-> reading.record]
    /\ UNCHANGED <<m_record, m_pBeats, m_cuePoints, m_pBeatsImporterPending,
                   m_pCueInfoImporterPending, m_bDirty, m_bMarkedForMetadataExport,
                   emitting, delivered, controllers>>

\* the thread returns m_record, and the mutex is released
GetRecordReturn ==
    /\ reading.pc \in {"locked", "unlocked"}
    /\ reading' = [pc |-> "done", dirty |-> reading.dirty, record |-> m_record]
    /\ UNCHANGED <<m_record, m_pBeats, m_cuePoints, m_pBeatsImporterPending,
                   m_pCueInfoImporterPending, m_bDirty, m_bMarkedForMetadataExport,
                   emitting, delivered, controllers>>

----------------------------------------------------------------------------
(* The public operations *)

\* The calls of the public operations on the track s: the name of the
\* operation and its arguments
Calls(s) ==
    {<<"trySetBpm", bpm>> : bpm \in BpmValues}
        \cup {<<op, pBeats>> : op \in {"trySetBeats", "trySetAndLockBeats"},
                               pBeats \in BeatsArgs(s)}
        \cup {<<"setBpmLocked", bpmLocked>> : bpmLocked \in BOOLEAN}
        \cup {<<"tryImportBeats", pBeatsImporter, bpmLocked>> :
                pBeatsImporter \in BeatsImporters, bpmLocked \in BOOLEAN}
        \cup {<<"importCueInfos", pCueInfoImporter>> : pCueInfoImporter \in SeratoCueImporters}
        \cup {<<"updateStreamInfoFromSource", streamInfo>> : streamInfo \in SampleRates}
        \cup {<<"replaceRecord", newRecord, otherChanged, nullBeats>> :
                newRecord \in TempoRecordArgs(s) \cup OtherRecordArgs(s) \cup MetaRecordArgs(s),
                otherChanged \in BOOLEAN}
        \cup {<<"replaceRecord", s.m_record, otherChanged, pOptionalBeats>> :
                otherChanged \in BOOLEAN, pOptionalBeats \in BeatsArgs(s)}
        \cup {<<"replaceMetadataFromSource", importedMetadata, otherModified, serato>> :
                importedMetadata \in ImportedMetadataArgs(s), otherModified \in BOOLEAN,
                serato \in SeratoArgs}
        \cup {<<"markDirty">>, <<"markClean">>, <<"resetId">>}
        \cup {<<op, text>> : op \in {"setTitle", "setArtist"}, text \in TextArgs}
        \cup {<<"initId", id>> : id \in AllTrackIds \ {kInvalidTrackId}}
        \cup {<<"setMainCuePosition", position>> : position \in Positions}
        \cup {<<"shiftCuePositionsMillis", milliseconds>> : milliseconds \in {-1000, 0, 1000}}
        \cup {<<"createAndAddCue", a>> : a \in CreateCueArgs}
        \cup {<<"removeCue", i>> : i \in DOMAIN s.m_cuePoints}
        \cup {<<"removeCuesOfType", type>> : type \in CueTypes}
        \cup {<<"setCuePoints", cuePoints>> :
                cuePoints \in {<<>>} \cup {<<pCue>> : pCue \in CueArgs}}

\* The track after the call c on the track s
Result(s, c) ==
    CASE c[1] = "trySetBpm" -> trySetBpm(s, c[2]).s
      [] c[1] = "trySetBeats" -> trySetBeats(s, c[2]).s
      [] c[1] = "trySetAndLockBeats" -> trySetAndLockBeats(s, c[2]).s
      [] c[1] = "setBpmLocked" -> setBpmLocked(s, c[2])
      [] c[1] = "tryImportBeats" -> tryImportBeats(s, c[2], c[3]).s
      [] c[1] = "importCueInfos" -> importCueInfos(s, c[2]).s
      [] c[1] = "updateStreamInfoFromSource" -> updateStreamInfoFromSource(s, c[2])
      [] c[1] = "replaceRecord" -> replaceRecord(s, c[2], c[3], c[4]).s
      [] c[1] = "replaceMetadataFromSource" ->
            replaceMetadataFromSource(s, c[2], c[3], c[4][1], c[4][2], c[4][3])
      [] c[1] = "markDirty" -> markDirty(s)
      [] c[1] = "markClean" -> markClean(s)
      [] c[1] = "resetId" -> resetId(s)
      [] c[1] = "setTitle" -> setTitle(s, c[2])
      [] c[1] = "setArtist" -> setArtist(s, c[2])
      [] c[1] = "initId" -> initId(s, c[2])
      [] c[1] = "setMainCuePosition" -> setMainCuePosition(s, c[2])
      [] c[1] = "shiftCuePositionsMillis" -> shiftCuePositionsMillis(s, c[2])
      [] c[1] = "createAndAddCue" -> createAndAddCue(s, c[2][1], c[2][2], c[2][3], c[2][4]).s
      [] c[1] = "removeCue" -> removeCue(s, c[2])
      [] c[1] = "removeCuesOfType" -> removeCuesOfType(s, c[2])
      [] c[1] = "setCuePoints" -> setCuePoints(s, c[2])

----------------------------------------------------------------------------
(* The Xone K2 mapping: the layers of the bottom buttons of the decks *)

\* XoneK2.decksInMiddleMidiChannel = 0xE
decksInMiddleMidiChannel == 14
\* XoneK2.effectsInMiddleMidiChannel = 0xD
effectsInMiddleMidiChannel == 13
\* XoneK2.fourDecksMidiChannel = 0xC
fourDecksMidiChannel == 12
\* XoneK2.fourEffectsMidiChannel = 0xB
fourEffectsMidiChannel == 11

\* the MIDI channels on which init presses the layer button: the ones that
\* carry decks
DeckChannels == {decksInMiddleMidiChannel, effectsInMiddleMidiChannel, fourDecksMidiChannel}

\* XoneK2.deckBottomButtonLayers; the index of the script is 0-based
deckBottomButtonLayers ==
    <<[name |-> "transport", layerButtonNoteNumber |-> 12],
      [name |-> "loop", layerButtonNoteNumber |-> 16],
      [name |-> "hotcue", layerButtonNoteNumber |-> 20]>>

\* XoneK2.controllers after the script is loaded: no columns yet.  layerLed
\* is the last message sent for the LED of the layer button, shiftLed the
\* value of the last message sent for the LED of the shift button.
NewControllers ==
    [ch \in DeckChannels \cup {fourEffectsMidiChannel} |->
        [columns |-> <<>>,
         isShifted |-> FALSE,
         deckLayerIndex |-> -1,
         layerLed |-> <<>>,
         shiftLed |-> 0]]

\* new XoneK2.Deck: bottomButtons is the first layer
Deck ==
    [kind |-> "Deck", bottomButtons |-> deckBottomButtonLayers[1].name, shifted |-> FALSE]

\* new XoneK2.EffectUnit: bottomButtons are the enableOnChannelButtons
EffectUnit ==
    [kind |-> "EffectUnit", bottomButtons |-> "enableOnChannelButtons", shifted |-> FALSE]

\* A faulty isPress: a note-off message (0x8n) counts as a press as well.
isPress_noteOff(status) == (status \div 16) * 16 \in {128, 144}

\* components.Button.prototype.isPress: (status & 0xF0) === 0x90
isPress(status) == (status \div 16) * 16 = 144

\* XoneK2.decksLayerButton on the controllers cs
decksLayerButton(cs, channel, status) ==
    IF isPress(status)
    THEN LET incremented == cs[channel].deckLayerIndex + 1
             deckLayerIndex == IF incremented = Len(deckBottomButtonLayers)
                               THEN 0
                               ELSE incremented
             newLayer == deckBottomButtonLayers[deckLayerIndex + 1]
             skipped(x) ==
                \/ channel = decksInMiddleMidiChannel /\ x \in {1, 4}
                \/ channel = effectsInMiddleMidiChannel /\ x \in {2, 3}
         IN  [cs EXCEPT ![channel].deckLayerIndex = deckLayerIndex,
                        ![channel].columns =
                            [x \in 1..4 |->
                                IF skipped(x)
                                THEN @[x]
                                ELSE [@[x] EXCEPT !.bottomButtons = newLayer.name]],
                        ![channel].layerLed =
                            <<status, newLayer.layerButtonNoteNumber, 127>>]
    ELSE cs

\* XoneK2.shiftButton on the controllers cs
shiftButton(cs, channel, status) ==
    LET isShifted == (status \div 16) * 16 = 144
    IN  [cs EXCEPT ![channel].isShifted = isShifted,
                   ![channel].columns = [z \in 1..4 |-> [@[z] EXCEPT !.shifted = isShifted]],
                   ![channel].shiftLed = IF isShifted THEN 127 ELSE 0]

\* XoneK2.init on the controllers cs
XoneK2_init(cs) ==
    LET withColumns ==
            [cs EXCEPT ![decksInMiddleMidiChannel].columns =
                            <<EffectUnit, Deck, Deck, EffectUnit>>,
                       ![effectsInMiddleMidiChannel].columns =
                            <<Deck, EffectUnit, EffectUnit, Deck>>,
                       ![fourDecksMidiChannel].columns = <<Deck, Deck, Deck, Deck>>,
                       ![fourEffectsMidiChannel].columns =
                            <<EffectUnit, EffectUnit, EffectUnit, EffectUnit>>]
         first == decksLayerButton(withColumns, decksInMiddleMidiChannel,
                        144 + decksInMiddleMidiChannel)
         second == decksLayerButton(first, effectsInMiddleMidiChannel,
                        144 + effectsInMiddleMidiChannel)
    IN  decksLayerButton(second, fourDecksMidiChannel, 144 + fourDecksMidiChannel)

\* the mapping is loaded: Mixxx calls init before it delivers a message
K2Init ==
    /\ controllers = NewControllers
    /\ controllers' = XoneK2_init(controllers)
    /\ UNCHANGED <<m_record, m_pBeats, m_cuePoints, m_pBeatsImporterPending,
                   m_pCueInfoImporterPending, m_bDirty, m_bMarkedForMetadataExport,
                   emitting, delivered, reading>>

\* a note-on or note-off message of the layer button of a controller with
\* decks
DecksLayerButton ==
    \E channel \in DeckChannels, status \in {128, 144} :
        /\ controllers # NewControllers
        /\ controllers' = decksLayerButton(controllers, channel, status + channel)
        /\ UNCHANGED <<m_record, m_pBeats, m_cuePoints, m_pBeatsImporterPending,
                       m_pCueInfoImporterPending, m_bDirty, m_bMarkedForMetadataExport,
                       emitting, delivered, reading>>

\* a note-on or note-off message of the shift button of a controller
ShiftButton ==
    \E channel \in DOMAIN controllers, status \in {128, 144} :
        /\ controllers # NewControllers
        /\ controllers' = shiftButton(controllers, channel, status + channel)
        /\ UNCHANGED <<m_record, m_pBeats, m_cuePoints, m_pBeatsImporterPending,
                       m_pCueInfoImporterPending, m_bDirty, m_bMarkedForMetadataExport,
                       emitting, delivered, reading>>

----------------------------------------------------------------------------
(* Construction *)

\* mixxx::TrackRecord of a new Track: Track::Track(fileAccess, trackId)
NewRecord(trackId) ==
    [id |-> trackId,
     bpm |-> kValueUndefined,
     bpmLocked |-> FALSE,
     mainCuePosition |-> kStartFramePos,
     streamInfoFromSource |-> 0,
     sampleRate |-> 0,
     title |-> <<>>,
     artist |-> <<>>]

Init ==
    /\ m_record \in {NewRecord(trackId) : trackId \in TrackIds}
    /\ m_pBeats = nullBeats
    /\ m_cuePoints = <<>>
    /\ m_pBeatsImporterPending = nullBeatsImporter
    /\ m_pCueInfoImporterPending = nullCueInfoImporter
    /\ m_bDirty = FALSE
    /\ m_bMarkedForMetadataExport = FALSE
    /\ emitting = noEmission
    /\ delivered = [written |-> <<>>, arg |-> <<>>]
    /\ reading = [pc |-> "idle", dirty |-> FALSE, record |-> NewRecord(kInvalidTrackId)]
    /\ controllers = NewControllers

\* the operations on the tempo, the beat grid and the deferred imports
Next ==
    \/ TrySetBpm
    \/ TrySetBeats
    \/ TrySetAndLockBeats
    \/ SetBpmLocked
    \/ TryImportBeats
    \/ ImportCueInfosOf(SeratoCueImporters)
    \/ UpdateStreamInfoFromSource
    \/ ReplaceRecord
    \/ ReplaceMetadataFromSource
    \/ MarkClean

Spec == Init /\ [][Next]_vars

\* the import of the metadata of the file and the setters of the tempo and
\* the grid, on a track with and without stream info, BPM lock and unsaved
\* changes
NextImport ==
    \/ ReplaceMetadataFromSource
    \/ UpdateStreamInfoFromSource
    \/ SetBpmLocked
    \/ TrySetBpm
    \/ TrySetBeats
    \/ MarkClean

SpecImport == Init /\ [][NextImport]_vars

\* the messages of the layer buttons and the shift buttons of the Xone K2
NextK2 ==
    \/ K2Init
    \/ DecksLayerButton
    \/ ShiftButton

SpecK2 == Init /\ [][NextK2]_vars

\* the operations on the cue collection
NextCues ==
    \/ CreateAndAddCue
    \/ SetMainCuePosition
    \/ RemoveCue
    \/ RemoveCuesOfType
    \/ SetCuePoints
    \/ ShiftCuePositionsMillis
    \/ ImportCueInfosOf(CueInfoImporters)
    \/ UpdateStreamInfoFromSource
    \/ ReplaceRecordSameTempo
    \/ MarkClean

SpecCues == Init /\ [][NextCues]_vars

\* the operations that add, remove and shift cues one type or one cue at a
\* time, on a track with and without stream info
NextCueOps ==
    \/ CreateAndAddCue
    \/ RemoveCuesOfType
    \/ ShiftCuePositionsMillis
    \/ UpdateStreamInfoFromSource
    \/ MarkClean

SpecCueOps == Init /\ [][NextCueOps]_vars

\* the operations on the texts, the identifier and the dirty flag, and one
\* on the beat grid
NextMeta ==
    \/ TrySetBeats
    \/ SetTitle
    \/ SetArtist
    \/ InitId
    \/ ResetId
    \/ MarkDirty
    \/ MarkClean
    \/ ReplaceRecordOfRow
    \/ MarkForMetadataExport
    \/ ExportMetadata

SpecMeta == Init /\ [][NextMeta]_vars

\* a thread whose setTitle and replaceRecord are split at the unlock, the
\* operations of another thread, and a thread in getRecord
NextThreads ==
    \/ SetTitleUnlocked
    \/ ReplaceRecordUnlocked
    \/ EmitTitleChanged
    \/ SetTitle
    \/ MarkClean
    \/ GetRecordDirty
    \/ GetRecordReturn

SpecThreads == Init /\ [][NextThreads]_vars

----------------------------------------------------------------------------
(* Statements about the tempo, the beat grid and the deferred imports *)

\* the number of times a signal has been emitted
Count(signal, emitted) ==
    Cardinality({i \in DOMAIN emitted : emitted[i].signal = signal})

\* the importers that hold something to import
NonEmptyBeatsImporters == {imp \in BeatsImporters : ~BeatsImporter_isEmpty(imp)}
NonEmptyCueInfoImporters ==
    {imp \in CueInfoImporters : imp.kind # "null" /\ ~CueInfoImporter_isEmpty(imp)}
emptyCueInfoImporter == [kind |-> "importer", infos |-> <<>>]

\* C1: in every state between two operations, the tempo of the record is
\* the tempo of the beat grid if the track holds a grid, and is invalid if
\* it holds none.
C1_BpmMatchesBeats ==
    IF m_pBeats.addr # kNullAddr
    THEN m_record.bpm = m_pBeats.bpm
    ELSE ~BpmIsValid(m_record.bpm)

\* a locked grid of the highest tempo on a dirty track, and the record has
\* that tempo
C1_Witness ==
    /\ m_pBeats.addr # kNullAddr
    /\ m_pBeats.bpm = MaxBpm
    /\ m_record.bpm = MaxBpm
    /\ m_record.bpmLocked
    /\ m_bDirty

\* C2: the cue collection holds at most one cue of type MainCue, and the
\* position of that cue is the main cue position of the record.
C2_OneMainCueAtRecordPosition ==
    LET mainCues == {i \in DOMAIN m_cuePoints : m_cuePoints[i].type = "MainCue"}
    IN  /\ Cardinality(mainCues) <= 1
        /\ \A i \in mainCues :
                Cue_getPosition(m_cuePoints[i]) = m_record.mainCuePosition

\* C3: on a track with a grid and a locked BPM, tryImportBeats of an
\* importer that is not empty, with either lock flag and with or without
\* the stream info, returns Complete and leaves the grid, the tempo of the
\* record and the BPM lock as they were.
C3_LockedGridKeptByTryImportBeats ==
    (m_record.bpmLocked /\ m_pBeats.addr # kNullAddr) =>
        \A pBeatsImporter \in NonEmptyBeatsImporters, lockBpmAfterSet \in BOOLEAN :
            LET res == tryImportBeats(Cur, pBeatsImporter, lockBpmAfterSet)
            IN  /\ res.r = "Complete"
                /\ res.s.m_pBeats = m_pBeats
                /\ res.s.m_record.bpm = m_record.bpm
                /\ res.s.m_record.bpmLocked = m_record.bpmLocked

\* a track with a grid, a locked BPM and the stream info, on which
\* tryImportBeats of an importer of another tempo returns Complete and
\* leaves that importer pending
C3_Witness ==
    /\ m_record.bpmLocked
    /\ m_pBeats.addr # kNullAddr
    /\ hasStreamInfoFromSource(Cur)
    /\ \E pBeatsImporter \in NonEmptyBeatsImporters :
            LET res == tryImportBeats(Cur, pBeatsImporter, FALSE)
            IN  /\ pBeatsImporter.bpm # m_pBeats.bpm
                /\ res.r = "Complete"
                /\ res.s.m_pBeatsImporterPending = pBeatsImporter
                /\ res.s.m_pBeats = m_pBeats

\* C4: on a track with a grid and a locked BPM and no importer pending,
\* tryImportBeats followed by updateStreamInfoFromSource leaves the grid in
\* place: neither call replaces it.
C4_LockedGridNotReplacedByImport ==
    (/\ m_record.bpmLocked
     /\ m_pBeats.addr # kNullAddr
     /\ m_pBeatsImporterPending = nullBeatsImporter) =>
        \A pBeatsImporter \in BeatsImporters, lockBpmAfterSet \in BOOLEAN,
           streamInfo \in SampleRates :
            LET s1 == tryImportBeats(Cur, pBeatsImporter, lockBpmAfterSet).s
                s2 == updateStreamInfoFromSource(s1, streamInfo)
            IN  /\ s1.m_pBeats = m_pBeats
                /\ s2.m_pBeats = m_pBeats
                /\ s2.m_record.bpmLocked

\* C5: on a track without stream info from the source, tryImportBeats of an
\* importer that is not empty returns Pending, leaves the track without a
\* grid and leaves the importer pending, whatever the state before the call.
C5_TryImportBeatsWithoutStreamInfoIsPending ==
    ~hasStreamInfoFromSource(Cur) =>
        \A pBeatsImporter \in NonEmptyBeatsImporters, lockBpmAfterSet \in BOOLEAN :
            LET res == tryImportBeats(Cur, pBeatsImporter, lockBpmAfterSet)
            IN  /\ res.r = "Pending"
                /\ res.s.m_pBeats.addr = kNullAddr
                /\ res.s.m_pBeatsImporterPending = pBeatsImporter
                /\ getBeatsImportStatus(res.s) = "Pending"

\* C6: when a beats importer is pending, updateStreamInfoFromSource with a
\* valid stream info applies it: the import status is Complete after the
\* call, the track holds the imported grid, and the call has emitted
\* bpmChanged once and beatsUpdated once.
C6_PendingBeatsImportedByUpdateStreamInfo ==
    getBeatsImportStatus(Cur) = "Pending" =>
        \A streamInfo \in SampleRates :
            LET s == updateStreamInfoFromSource(Cur, streamInfo)
            IN  /\ getBeatsImportStatus(s) = "Complete"
                /\ s.m_pBeats = Held(importBeatsAndApplyTimingOffset(Cur))
                /\ s.m_record.bpm = m_pBeatsImporterPending.bpm
                /\ Count("beatsUpdated", s.emitted) = 1
                /\ Count("bpmChanged", s.emitted) = 1

\* a track with a grid, a locked BPM and a pending importer of another
\* tempo, whose grid updateStreamInfoFromSource replaces by the imported one
C6_Witness ==
    /\ getBeatsImportStatus(Cur) = "Pending"
    /\ m_pBeats.addr # kNullAddr
    /\ m_pBeats.bpm # m_pBeatsImporterPending.bpm
    /\ \E streamInfo \in SampleRates :
            LET s == updateStreamInfoFromSource(Cur, streamInfo)
            IN  /\ s.m_pBeats.bpm = m_pBeatsImporterPending.bpm
                /\ s.m_pBeatsImporterPending = nullBeatsImporter
                /\ s.emitted # <<>>

\* C7: on a track with stream info from the source, tryImportBeats and
\* importCueInfos of an importer that is not empty return Complete, and the
\* import status of that kind is Complete after the call.
C7_ImportWithStreamInfoIsComplete ==
    hasStreamInfoFromSource(Cur) =>
        /\ \A pBeatsImporter \in NonEmptyBeatsImporters, lockBpmAfterSet \in BOOLEAN :
                LET res == tryImportBeats(Cur, pBeatsImporter, lockBpmAfterSet)
                IN  /\ res.r = "Complete"
                    /\ getBeatsImportStatus(res.s) = "Complete"
        /\ \A pCueInfoImporter \in NonEmptyCueInfoImporters :
                LET res == importCueInfos(Cur, pCueInfoImporter)
                IN  /\ res.r = "Complete"
                    /\ getCueImportStatus(res.s) = "Complete"

\* C8: tryImportBeats and importCueInfos of an empty importer return
\* Complete, leave no importer of that kind pending, leave the grid, the
\* cues, the BPM lock and the dirty flag as they were, and emit no signal.
C8_EmptyImporterIsNoOp ==
    /\ \A lockBpmAfterSet \in BOOLEAN :
            LET res == tryImportBeats(Cur, emptyBeatsImporter, lockBpmAfterSet)
            IN  /\ res.r = "Complete"
                /\ res.s.m_pBeatsImporterPending = nullBeatsImporter
                /\ getBeatsImportStatus(res.s) = "Complete"
                /\ res.s.m_pBeats = m_pBeats
                /\ res.s.m_cuePoints = m_cuePoints
                /\ res.s.m_record = m_record
                /\ res.s.m_bDirty = m_bDirty
                /\ res.s.emitted = <<>>
    /\ LET res == importCueInfos(Cur, emptyCueInfoImporter)
       IN  /\ res.r = "Complete"
           /\ res.s.m_pCueInfoImporterPending = nullCueInfoImporter
           /\ getCueImportStatus(res.s) = "Complete"
           /\ res.s.m_pBeats = m_pBeats
           /\ res.s.m_cuePoints = m_cuePoints
           /\ res.s.m_record = m_record
           /\ res.s.m_bDirty = m_bDirty
           /\ res.s.emitted = <<>>

\* a clean track with a grid, an unlocked BPM, a cue and no stream info, on
\* which tryImportBeats of an empty importer with the lock flag set returns
\* Complete and changes nothing
C8_Witness ==
    /\ m_pBeats.addr # kNullAddr
    /\ ~m_record.bpmLocked
    /\ ~hasStreamInfoFromSource(Cur)
    /\ m_cuePoints # <<>>
    /\ ~m_bDirty
    /\ LET res == tryImportBeats(Cur, emptyBeatsImporter, TRUE)
       IN  /\ res.r = "Complete"
           /\ res.s.m_pBeats = m_pBeats
           /\ ~res.s.m_record.bpmLocked

\* C9: while an importer of a kind is pending, submitting another importer
\* of that kind keeps the pending one: it is neither replaced nor dropped.
C9_PendingImporterKept ==
    /\ getBeatsImportStatus(Cur) = "Pending" =>
            \A pBeatsImporter \in BeatsImporters, lockBpmAfterSet \in BOOLEAN :
                tryImportBeats(Cur, pBeatsImporter, lockBpmAfterSet).s.m_pBeatsImporterPending
                    = m_pBeatsImporterPending
    /\ getCueImportStatus(Cur) = "Pending" =>
            \A pCueInfoImporter \in CueInfoImporters :
                importCueInfos(Cur, pCueInfoImporter).s.m_pCueInfoImporterPending
                    = m_pCueInfoImporterPending

\* C10: a pending cue importer that is not empty and a cue collection that
\* is not empty never coexist.
C10_PendingCueImporterExcludesCues ==
    ~(getCueImportStatus(Cur) = "Pending" /\ m_cuePoints # <<>>)

\* C11: on a track without stream info from the source, importCueInfos of
\* an importer that is not empty removes all cues, returns Pending and
\* leaves the cue import status Pending; updateStreamInfoFromSource called
\* next installs the imported cues, leaves the status Complete and emits
\* cuesUpdated.
C11_CueImportDeferredUntilStreamInfo ==
    ~hasStreamInfoFromSource(Cur) =>
        \A pCueInfoImporter \in NonEmptyCueInfoImporters, streamInfo \in SampleRates :
            LET res == importCueInfos(Cur, pCueInfoImporter)
                s2 == updateStreamInfoFromSource(After(res.s), streamInfo)
            IN  /\ res.r = "Pending"
                /\ res.s.m_cuePoints = <<>>
                /\ getCueImportStatus(res.s) = "Pending"
                /\ s2.m_cuePoints =
                        [i \in DOMAIN pCueInfoImporter.infos |->
                            CueFromInfo(pCueInfoImporter.infos[i], streamInfo)]
                /\ getCueImportStatus(s2) = "Complete"
                /\ Count("cuesUpdated", s2.emitted) = 1

\* a track with cues and without stream info, on which importCueInfos
\* removes the cues and updateStreamInfoFromSource installs other ones
C11_Witness ==
    /\ ~hasStreamInfoFromSource(Cur)
    /\ m_cuePoints # <<>>
    /\ \E pCueInfoImporter \in NonEmptyCueInfoImporters, streamInfo \in SampleRates :
            LET res == importCueInfos(Cur, pCueInfoImporter)
                s2 == updateStreamInfoFromSource(After(res.s), streamInfo)
            IN  /\ res.r = "Pending"
                /\ res.s.m_cuePoints = <<>>
                /\ Count("cuesUpdated", res.s.emitted) = 1
                /\ Len(s2.m_cuePoints) = Len(pCueInfoImporter.infos)
                /\ s2.m_cuePoints # m_cuePoints

\* markDirty() followed by markClean() emits dirty(id) and then clean(id),
\* and isDirty() is true after the first call and false after the second
DirtyThenClean ==
    LET s1 == markDirty(Cur)
        s2 == markClean(After(s1))
        signals == SignalsOf(s1.emitted \o s2.emitted, {"dirty", "clean"})
    IN  /\ Len(signals) = 2
        /\ signals[1].signal = "dirty" /\ signals[1].arg = m_record.id
        /\ signals[2].signal = "clean" /\ signals[2].arg = m_record.id
        /\ isDirty(s1)
        /\ ~isDirty(s2)

\* C12 as stated: on every track with a valid identifier, markDirty()
\* followed by markClean() emits dirty(id) and then clean(id), and isDirty()
\* is true after the first call and false after the second.
C12_DirtyThenCleanOnAnyTrack ==
    TrackIdIsValid(m_record.id) => DirtyThenClean

\* C12 amended: the same on a track with a valid identifier that is not
\* dirty before the calls.
C12_DirtyThenCleanOnCleanTrack ==
    (TrackIdIsValid(m_record.id) /\ ~m_bDirty) => DirtyThenClean

\* a clean track with a valid identifier and a beat grid, on which the two
\* calls emit dirty, changed and then clean
C12_Witness ==
    /\ TrackIdIsValid(m_record.id)
    /\ ~m_bDirty
    /\ m_pBeats.addr # kNullAddr
    /\ LET s1 == markDirty(Cur)
           s2 == markClean(After(s1))
       IN  /\ Len(s1.emitted) = 2
           /\ s1.emitted[2].signal = "changed"
           /\ Len(s2.emitted) = 1
           /\ s2.m_bDirty # s1.m_bDirty

\* A new temporary track: no identifier, clean, no title and no artist
IsNewTemporary ==
    /\ ~TrackIdIsValid(m_record.id)
    /\ ~m_bDirty
    /\ m_record.title = <<>>
    /\ m_record.artist = <<>>

\* the signals of a name and an argument among emitted
CountWith(signal, arg, emitted) ==
    Cardinality({i \in DOMAIN emitted :
        emitted[i].signal = signal /\ emitted[i].arg = arg})

\* C13 as stated: on a new temporary track setTitle("Test") makes isDirty()
\* true without emitting dirty(id); after initId(validId), the next changing
\* mutator setArtist("Artist") emits dirty(id).
C13_DirtyEmittedAfterInitId ==
    IsNewTemporary =>
        \A title \in TextArgs, artist \in TextArgs, id \in AllTrackIds :
            (trimmed(title) # <<>> /\ trimmed(artist) # <<>> /\ TrackIdIsValid(id)) =>
                LET s1 == setTitle(Cur, title)
                    s2 == initId(After(s1), id)
                    s3 == setArtist(After(s2), artist)
                IN  /\ isDirty(s1)
                    /\ Count("dirty", s1.emitted) = 0
                    /\ CountWith("dirty", id, s3.emitted) = 1

\* C13 amended: on a new temporary track setTitle("Test") makes isDirty()
\* true without emitting dirty(id); after initId(validId), the next changing
\* mutator setArtist("Artist") emits changed(id) and artistChanged, but not
\* dirty(id), because the track is dirty already.
C13_ChangedEmittedAfterInitId ==
    IsNewTemporary =>
        \A title \in TextArgs, artist \in TextArgs, id \in AllTrackIds :
            (trimmed(title) # <<>> /\ trimmed(artist) # <<>> /\ TrackIdIsValid(id)) =>
                LET s1 == setTitle(Cur, title)
                    s2 == initId(After(s1), id)
                    s3 == setArtist(After(s2), artist)
                IN  /\ isDirty(s1)
                    /\ Count("dirty", s1.emitted) = 0
                    /\ Count("changed", s1.emitted) = 0
                    /\ getId(s2) = id
                    /\ s2.emitted = <<>>
                    /\ CountWith("changed", id, s3.emitted) = 1
                    /\ CountWith("artistChanged", trimmed(artist), s3.emitted) = 1
                    /\ Count("dirty", s3.emitted) = 0
                    /\ isDirty(s3)

\* a new temporary track on which the three calls trim and set the title
\* "Test", set the identifier 2 and the artist "Artist", and emit
\* titleChanged and then changed, artistChanged and infoChanged
C13_Witness ==
    /\ IsNewTemporary
    /\ \E title \in TextArgs, artist \in TextArgs, id \in AllTrackIds :
        LET s1 == setTitle(Cur, title)
            s2 == initId(After(s1), id)
            s3 == setArtist(After(s2), artist)
        IN  /\ title # trimmed(title)
            /\ CountWith("titleChanged", <<"T", "e", "s", "t">>, s1.emitted) = 1
            /\ s1.m_bDirty
            /\ s2.m_record.id = 2
            /\ s3.m_record.artist = <<"A", "r", "t", "i", "s", "t">>
            /\ Len(s3.emitted) = 3

\* t has emitted none of dirty, clean and changed
NoPersistenceSignal(t) ==
    /\ Count("dirty", t.emitted) = 0
    /\ Count("clean", t.emitted) = 0
    /\ Count("changed", t.emitted) = 0

Stored(t) ==
    <<[t.m_record EXCEPT !.id = kInvalidTrackId, !.streamInfoFromSource = 0],
      [t.m_pBeats EXCEPT !.addr = IF @ = kNullAddr THEN kNullAddr ELSE kHeldAddr],
      t.m_cuePoints>>

\* C15: on a track with a valid identifier every operation that changes
\* what is stored of the track emits changed(id), and none emits dirty(id)
\* when the track was dirty before; markDirty() emits changed(id) on a
\* dirty track too, and markClean() never emits changed.
C15_ChangedOnEveryMutation ==
    TrackIdIsValid(m_record.id) =>
        \A c \in Calls(Cur) :
            LET t == Result(Cur, c)
            IN  /\ (TrackIdIsValid(getId(t)) /\ Stored(t) # Stored(Cur)) =>
                    /\ CountWith("changed", getId(t), t.emitted) >= 1
                    /\ Count("changed", t.emitted) = CountWith("changed", getId(t), t.emitted)
                    /\ isDirty(t)
                /\ m_bDirty => Count("dirty", t.emitted) = 0
                /\ c[1] = "markDirty" => CountWith("changed", m_record.id, t.emitted) = 1
                /\ c[1] = "markClean" => Count("changed", t.emitted) = 0

\* a dirty track with an identifier and a title on which a call changes the
\* artist and emits changed and not dirty, and on which markClean() emits
\* clean only
C15_Witness ==
    /\ TrackIdIsValid(m_record.id)
    /\ m_bDirty
    /\ m_record.title # <<>>
    /\ \E c \in Calls(Cur) :
        LET t == Result(Cur, c)
        IN  /\ t.m_record.artist # m_record.artist
            /\ getId(t) = m_record.id
            /\ Len(t.emitted) = 3
            /\ t.emitted[1].signal = "changed"
            /\ t.emitted[2].signal = "artistChanged"
    /\ Len(markClean(Cur).emitted) = 1
    /\ markClean(Cur).emitted[1].signal = "clean"

\* C16: each notification of a field is emitted only by an operation that
\* has changed the value of the field: after every operation, titleChanged
\* was emitted only if the title differs from the one before, and likewise
\* artistChanged and the artist, bpmChanged and the tempo, beatsUpdated and
\* the beat grid.
C16_FieldSignalOnlyOnChange ==
    \A c \in Calls(Cur) :
        LET t == Result(Cur, c)
        IN  /\ Count("titleChanged", t.emitted) > 0 => getTitle(t) # getTitle(Cur)
            /\ Count("artistChanged", t.emitted) > 0 => getArtist(t) # getArtist(Cur)
            /\ Count("bpmChanged", t.emitted) > 0 => t.m_record.bpm # m_record.bpm
            /\ Count("beatsUpdated", t.emitted) > 0 => t.m_pBeats # m_pBeats

\* C17: no notification of the track is emitted while the lock of the
\* track is held by the emitting thread: after every operation, each signal
\* it has emitted was emitted with the lock released.
C17_NoSignalWhileLocked ==
    \A c \in Calls(Cur) :
        \A i \in DOMAIN Result(Cur, c).emitLock : Result(Cur, c).emitLock[i] = 0

\* C18: the argument of a notification is the value that the operation
\* that emits it has written under the lock, also when an operation of
\* another thread runs between its unlock and its emit: the titleChanged a
\* thread has emitted last carries the title that thread has written.
C18_PayloadIsValueWritten ==
    delivered.arg = delivered.written

\* C19: no operation calls the metadata source while it holds the lock of
\* the track: every call of the metadata source by exportMetadata is made
\* with the lock released.
C19_NoIoWhileLocked ==
    \A a \in ExportArgs :
        LET res == exportMetadata(Cur, a.sourceSynchronized, a.seratoExport,
                        a.importResult, a.tagsModified, a.exportResult)
        IN  \A i \in DOMAIN res.s.io : res.s.io[i].lock = 0

\* C20: once the identifier of the track is valid, no step changes it to
\* another valid identifier: it stays or becomes unset.
C20_ValidIdNotReplaced ==
    [][TrackIdIsValid(m_record.id) => m_record.id' \in {m_record.id, kInvalidTrackId}]_vars

----------------------------------------------------------------------------
(* Statements about single operations on the tempo, the export and the cues *)

\* C21: trySetBpm(x) called twice in succession with the same valid x: the
\* second call returns false, leaves the grid, the record (tempo and BPM
\* lock) and the dirty flag as they are and emits nothing.
C21_SecondTrySetBpmIsNoOp ==
    \A bpm \in BpmValues :
        BpmIsValid(bpm) =>
            LET first == trySetBpm(Cur, bpm)
                second == trySetBpm(After(first.s), bpm)
            IN  /\ ~second.r
                /\ second.s.emitted = <<>>
                /\ second.s.m_pBeats = first.s.m_pBeats
                /\ second.s.m_record = first.s.m_record
                /\ second.s.m_bDirty = first.s.m_bDirty
                /\ second.s = After(first.s)

\* a clean, unlocked track with a grid of another tempo: the first call
\* replaces the grid, returns true and emits, the second one returns false
C21_Witness ==
    /\ m_pBeats.addr # kNullAddr
    /\ ~m_bDirty
    /\ \E bpm \in BpmValues :
        LET first == trySetBpm(Cur, bpm)
            second == trySetBpm(After(first.s), bpm)
        IN  /\ BpmIsValid(bpm) /\ BpmIsValid(m_pBeats.bpm)
            /\ first.r
            /\ first.s.m_pBeats.bpm = bpm /\ m_pBeats.bpm # bpm
            /\ Count("bpmChanged", first.s.emitted) = 1
            /\ first.s.m_bDirty
            /\ ~second.r

\* C22: trySetBpm with an invalid BPM: on a BPM-locked track with a grid
\* the call is rejected (returns false, changes and emits nothing);
\* otherwise no grid is present afterwards and the tempo of the record is
\* invalid, and the call returns true exactly when the grid or the BPM
\* lock has changed.
C22_InvalidBpmClearsGrid ==
    \A bpm \in BpmValues :
        ~BpmIsValid(bpm) =>
            LET res == trySetBpm(Cur, bpm)
            IN  IF m_pBeats.addr # kNullAddr /\ m_record.bpmLocked
                THEN ~res.r /\ res.s = Cur
                ELSE /\ res.s.m_pBeats.addr = kNullAddr
                     /\ ~BpmIsValid(res.s.m_record.bpm)
                     /\ res.r <=> \/ res.s.m_pBeats # m_pBeats
                                  \/ res.s.m_record.bpmLocked # m_record.bpmLocked

\* an unlocked track with a grid of a valid tempo, which the call clears,
\* and a locked one
C22_Witness ==
    /\ m_pBeats.addr # kNullAddr
    /\ BpmIsValid(m_record.bpm)
    /\ LET res == trySetBpm(Cur, kValueUndefined)
       IN  IF m_record.bpmLocked
           THEN FALSE
           ELSE /\ res.r
                /\ res.s.m_pBeats = nullBeats
                /\ res.s.m_record.bpm = kValueUndefined
                /\ Count("beatsUpdated", res.s.emitted) = 1

\* C23 as stated: replaceMetadataFromSource applies the imported BPM if and
\* only if no valid grid exists: with a grid of a valid tempo the grid and
\* the tempo of the record are unchanged; with no such grid and a valid
\* imported BPM the grid becomes a grid of that tempo at the main cue
\* position, or at the start position if the main cue position is invalid.
C23_ImportedBpmAppliedIffNoValidGrid ==
    \A importedMetadata \in ImportedMetadataArgs(Cur), otherModified \in BOOLEAN :
        LET t == replaceMetadataFromSource(Cur, importedMetadata, otherModified,
                    nullBeatsImporter, FALSE, nullCueInfoImporter)
        IN  IF m_pBeats.addr # kNullAddr /\ BpmIsValid(m_pBeats.bpm)
            THEN t.m_pBeats = m_pBeats /\ t.m_record.bpm = m_record.bpm
            ELSE BpmIsValid(importedMetadata.bpm) =>
                    /\ t.m_pBeats.addr # kNullAddr
                    /\ t.m_pBeats.bpm = importedMetadata.bpm
                    /\ t.m_record.bpm = importedMetadata.bpm
                    /\ t.m_pBeats.firstBeat =
                            IF PosIsValid(m_record.mainCuePosition)
                            THEN m_record.mainCuePosition
                            ELSE kStartFramePos

\* C23 amended: replaceMetadataFromSource leaves the grid and the tempo of
\* the record unchanged when the track has a grid of a valid tempo, when
\* the imported BPM is invalid, and when the track is BPM-locked and has a
\* grid (of an invalid tempo).  Otherwise, with a valid imported BPM: a
\* track without grid gets a grid of that tempo at the main cue position, or
\* at the start position if the main cue position is invalid; the grid of
\* an invalid tempo of an unlocked track is set to that tempo and keeps its
\* position.
C23_ImportedBpmAppliedUnlessValidOrLockedGrid ==
    \A importedMetadata \in ImportedMetadataArgs(Cur), otherModified \in BOOLEAN :
        LET t == replaceMetadataFromSource(Cur, importedMetadata, otherModified,
                    nullBeatsImporter, FALSE, nullCueInfoImporter)
            hasGrid == m_pBeats.addr # kNullAddr
        IN  IF \/ hasGrid /\ BpmIsValid(m_pBeats.bpm)
               \/ ~BpmIsValid(importedMetadata.bpm)
               \/ hasGrid /\ m_record.bpmLocked
            THEN t.m_pBeats = m_pBeats /\ t.m_record.bpm = m_record.bpm
            ELSE /\ t.m_pBeats.addr # kNullAddr
                 /\ t.m_pBeats.bpm = importedMetadata.bpm
                 /\ t.m_record.bpm = importedMetadata.bpm
                 /\ t.m_pBeats.firstBeat =
                        IF hasGrid THEN m_pBeats.firstBeat
                        ELSE IF PosIsValid(m_record.mainCuePosition)
                        THEN m_record.mainCuePosition
                        ELSE kStartFramePos

\* a track without grid and with a main cue position after the start, at
\* which the imported tempo places a new grid
C23_Witness ==
    /\ m_pBeats.addr = kNullAddr
    /\ PosIsValid(m_record.mainCuePosition)
    /\ m_record.mainCuePosition # kStartFramePos
    /\ \E importedMetadata \in ImportedMetadataArgs(Cur) :
        LET t == replaceMetadataFromSource(Cur, importedMetadata, FALSE,
                    nullBeatsImporter, FALSE, nullCueInfoImporter)
        IN  /\ BpmIsValid(t.m_pBeats.bpm)
            /\ t.m_pBeats.firstBeat = m_record.mainCuePosition
            /\ Count("beatsUpdated", t.emitted) = 1

\* C24 as stated: every call of replaceMetadataFromSource whose imported
\* metadata hold a Serato beats or cues importer leaves the track as the
\* merge without importers followed, after its unlock and its signals, by
\* tryImportBeats and importCueInfos with these importers.
C24_SidecarSubmittedAfterEveryMerge ==
    \A importedMetadata \in ImportedMetadataArgs(Cur), otherModified \in BOOLEAN,
       serato \in SeratoArgs :
        LET merge == replaceMetadataFromSource(Cur, importedMetadata, otherModified,
                        nullBeatsImporter, FALSE, nullCueInfoImporter)
            beats == IF serato[1].kind # "null"
                     THEN tryImportBeats(merge, serato[1], serato[2]).s
                     ELSE merge
            cues == IF serato[3].kind # "null"
                    THEN importCueInfos(beats, serato[3]).s
                    ELSE beats
        IN  /\ merge.lock = 0
            /\ replaceMetadataFromSource(Cur, importedMetadata, otherModified,
                    serato[1], serato[2], serato[3]) = cues

\* C24 amended: the same for every call that modifies the record or the
\* tempo; a call that modifies nothing returns before that step, and leaves
\* the track as it is without submitting the importers.
C24_SidecarSubmittedAfterModifyingMerge ==
    \A importedMetadata \in ImportedMetadataArgs(Cur), otherModified \in BOOLEAN,
       serato \in SeratoArgs :
        LET merge == replaceMetadataFromSource(Cur, importedMetadata, otherModified,
                        nullBeatsImporter, FALSE, nullCueInfoImporter)
            beats == IF serato[1].kind # "null"
                     THEN tryImportBeats(merge, serato[1], serato[2]).s
                     ELSE merge
            cues == IF serato[3].kind # "null"
                    THEN importCueInfos(beats, serato[3]).s
                    ELSE beats
            full == replaceMetadataFromSource(Cur, importedMetadata, otherModified,
                        serato[1], serato[2], serato[3])
        IN  IF merge.emitted # <<>>
            THEN /\ merge.lock = 0
                 /\ full = cues
                 /\ SubSeq(full.emitted, 1, Len(merge.emitted)) = merge.emitted
                 /\ \A i \in DOMAIN full.emitLock : full.emitLock[i] = 0
            ELSE full = Cur

\* a track with a grid and with stream info on which a merge with Serato
\* beats and cues emits its signals, and then imports the grid and the cue
\* with signals of their own
C24_Witness ==
    /\ m_pBeats.addr # kNullAddr
    /\ ~m_record.bpmLocked
    /\ hasStreamInfoFromSource(Cur)
    /\ \E importedMetadata \in ImportedMetadataArgs(Cur), serato \in SeratoArgs :
        LET merge == replaceMetadataFromSource(Cur, importedMetadata, TRUE,
                        nullBeatsImporter, FALSE, nullCueInfoImporter)
            full == replaceMetadataFromSource(Cur, importedMetadata, TRUE,
                        serato[1], serato[2], serato[3])
        IN  /\ serato[1].kind = "data" /\ serato[3].kind # "null"
            /\ Len(full.emitted) > Len(merge.emitted)
            /\ full.emitted[Len(merge.emitted)].signal = "keyChanged"
            /\ full.emitted[Len(full.emitted)].signal = "cuesUpdated"
            /\ Count("beatsUpdated", full.emitted) > Count("beatsUpdated", merge.emitted)
            /\ full.m_pBeats.bpm = serato[1].bpm
            /\ full.m_pBeats # merge.m_pBeats
            /\ full.m_pBeatsImporterPending.kind = "null"
            /\ full.m_cuePoints # <<>>

\* C25: on a track that is not marked for metadata export and whose record
\* is not source-synchronized, exportMetadata returns Skipped, does not
\* call the metadata source (neither its import nor exportTrackMetadata)
\* and leaves the track as it is.
C25_UnsynchronizedUnmarkedExportSkipped ==
    ~m_bMarkedForMetadataExport =>
        \A a \in ExportArgs :
            ~a.sourceSynchronized =>
                LET res == exportMetadata(Cur, a.sourceSynchronized, a.seratoExport,
                                a.importResult, a.tagsModified, a.exportResult)
                IN  /\ res.r = "Skipped"
                    /\ \A i \in DOMAIN res.s.io : res.s.io[i].call # "exportTrackMetadata"
                    /\ res.s.io = <<>>
                    /\ res.s.m_record = m_record
                    /\ res.s = Cur

\* a dirty, unmarked track with a title whose export is skipped although the
\* tags of the file differ and could be written
C25_Witness ==
    /\ ~m_bMarkedForMetadataExport
    /\ m_bDirty
    /\ m_record.title # <<>>
    /\ \E a \in ExportArgs :
        /\ ~a.sourceSynchronized /\ a.tagsModified
        /\ a.importResult = "Succeeded" /\ a.exportResult = "Succeeded"
        /\ exportMetadata(Cur, a.sourceSynchronized, a.seratoExport,
                a.importResult, a.tagsModified, a.exportResult).r = "Skipped"

\* C26: exportMetadata on the track as it is, and after
\* markForMetadataExport(): once the tags of the file have been re-imported
\* with success, the write is skipped and Skipped returned if the tags are
\* not modified and the track is not marked, and performed otherwise; once
\* the re-import has failed, the write is performed if the track is marked,
\* and else skipped and Skipped returned.  The write resets the mark.
C26_ExportOnlyIfModifiedOrMarked ==
    \A a \in ExportArgs, mark \in BOOLEAN :
        LET s0 == IF mark THEN After(markForMetadataExport(Cur)) ELSE Cur
            marked == mark \/ m_bMarkedForMetadataExport
            res == exportMetadata(s0, a.sourceSynchronized, a.seratoExport,
                        a.importResult, a.tagsModified, a.exportResult)
            imported == \E i \in DOMAIN res.s.io :
                            res.s.io[i].call = "importTrackMetadataAndCoverImage"
            written == \E i \in DOMAIN res.s.io : res.s.io[i].call = "exportTrackMetadata"
        IN  /\ imported <=> /\ marked \/ a.sourceSynchronized
                            /\ ~a.seratoExport \/ hasStreamInfoFromSource(Cur)
            /\ imported =>
                /\ written <=> IF a.importResult = "Succeeded"
                               THEN marked \/ a.tagsModified
                               ELSE marked
                /\ ~written => res.r = "Skipped" /\ res.s.m_bMarkedForMetadataExport = marked
                /\ written => ~res.s.m_bMarkedForMetadataExport
                /\ (written /\ a.exportResult = "Succeeded") => res.r = "Succeeded"
            /\ ~imported => ~written /\ res.r = "Skipped"

\* an unmarked track: the export of unmodified tags is skipped, and after
\* markForMetadataExport() it is performed, also when the re-import fails
C26_Witness ==
    /\ ~m_bMarkedForMetadataExport
    /\ m_record.artist # <<>>
    /\ \E a \in ExportArgs :
        LET marked == After(markForMetadataExport(Cur))
        IN  /\ a.sourceSynchronized /\ ~a.tagsModified /\ ~a.seratoExport
            /\ a.exportResult = "Succeeded"
            /\ exportMetadata(Cur, TRUE, FALSE, "Succeeded", FALSE, "Succeeded").r = "Skipped"
            /\ exportMetadata(marked, TRUE, FALSE, "Succeeded", FALSE, "Succeeded").r = "Succeeded"
            /\ exportMetadata(marked, TRUE, FALSE, "Failed", FALSE, "Succeeded").r = "Succeeded"
            /\ Len(exportMetadata(marked, TRUE, FALSE, "Failed", FALSE, "Succeeded").s.io) = 2

\* C27: createAndAddCue with a hot cue index that is neither kNoHotCue nor
\* at least kFirstHotCueIndex, or with a start and an end position that are
\* both invalid, returns no cue and leaves the collection, the dirty flag
\* and everything else as they are, without a signal; with any other
\* arguments it appends the new cue to the collection, sets the dirty flag
\* and emits cuesUpdated once, as the last signal.
C27_CreateAndAddCueRejectsOrAppends ==
    \A a \in CreateCueArgs :
        LET res == createAndAddCue(Cur, a[1], a[2], a[3], a[4])
            accepted == /\ a[2] = kNoHotCue \/ a[2] >= kFirstHotCueIndex
                        /\ PosIsValid(a[3]) \/ PosIsValid(a[4])
        IN  IF ~accepted
            THEN /\ ~res.r
                 /\ res.s.m_cuePoints = m_cuePoints
                 /\ res.s.m_bDirty = m_bDirty
                 /\ res.s.emitted = <<>>
                 /\ res.s = Cur
            ELSE /\ res.r
                 /\ Len(res.s.m_cuePoints) = Len(m_cuePoints) + 1
                 /\ SubSeq(res.s.m_cuePoints, 1, Len(m_cuePoints)) = m_cuePoints
                 /\ res.s.m_cuePoints[Len(m_cuePoints) + 1] = Cue(a[1], a[2], a[3], a[4])
                 /\ res.s.m_bDirty
                 /\ Count("cuesUpdated", res.s.emitted) = 1
                 /\ res.s.emitted[Len(res.s.emitted)].signal = "cuesUpdated"
                 /\ res.s.m_record = m_record

\* a clean track with a cue: a hot cue that has only an end position is
\* appended, the index -2 and a cue without a position are rejected
C27_Witness ==
    /\ ~m_bDirty
    /\ Len(m_cuePoints) = 1
    /\ createAndAddCue(Cur, "HotCue", kFirstHotCueIndex, kInvalidFramePos, MaxPos).r
    /\ createAndAddCue(Cur, "HotCue", kFirstHotCueIndex, kInvalidFramePos, MaxPos).s.m_bDirty
    /\ ~createAndAddCue(Cur, "HotCue", -2, MaxPos, kInvalidFramePos).r
    /\ ~createAndAddCue(Cur, "HotCue", kFirstHotCueIndex, kInvalidFramePos, kInvalidFramePos).r

----------------------------------------------------------------------------
(* Statements about threads that read the track *)

----------------------------------------------------------------------------
(* Statements about the dirty flag, the export mark, the cues and the lock *)

\* C31: a mutator marks the track dirty only if it has changed a value:
\* after every operation other than markDirty and markClean that leaves the
\* record, the grid, the cue collection, the pending importers and the
\* export mark equal to what they were, the dirty flag is what it was and
\* no signal has been emitted.  (A replaceRecord or replaceMetadataFromSource
\* whose otherChanged is true has changed a field the record of the model
\* does not hold.)
C31_DirtyOnlyOnChange ==
    \A c \in Calls(Cur) :
        LET t == Result(Cur, c)
        IN  (/\ c[1] \notin {"markDirty", "markClean"}
             /\ c[1] \in {"replaceRecord", "replaceMetadataFromSource"} => ~c[3]
             /\ t.m_record = m_record
             /\ t.m_pBeats = m_pBeats
             /\ t.m_cuePoints = m_cuePoints
             /\ t.m_pBeatsImporterPending = m_pBeatsImporterPending
             /\ t.m_pCueInfoImporterPending = m_pCueInfoImporterPending
             /\ t.m_bMarkedForMetadataExport = m_bMarkedForMetadataExport)
                => (t.m_bDirty = m_bDirty /\ t.emitted = <<>>)

\* C32: a call of exportMetadata that reaches the write has cleared the
\* export mark when it returns, whatever the result of the write, and it
\* updates the synchronization time stamp exactly when the write has
\* succeeded.  So after a write that has failed or is unsupported on a track
\* that is not source-synchronized, a second exportMetadata without a
\* markForMetadataExport in between returns Skipped and calls neither the
\* import nor the write of the metadata source.
C32_ExportTriedOnce ==
    \A a \in ExportArgs, b \in ExportArgs, mark \in BOOLEAN :
        LET s0 == IF mark THEN After(markForMetadataExport(Cur)) ELSE Cur
            first == exportMetadata(s0, a.sourceSynchronized, a.seratoExport,
                        a.importResult, a.tagsModified, a.exportResult)
            written == \E i \in DOMAIN first.s.io :
                            first.s.io[i].call = "exportTrackMetadata"
            second == exportMetadata(After(first.s), b.sourceSynchronized, b.seratoExport,
                        b.importResult, b.tagsModified, b.exportResult)
        IN  /\ written => ~first.s.m_bMarkedForMetadataExport
            /\ first.synchronizedAt <=> (written /\ a.exportResult = "Succeeded")
            /\ first.synchronizedAt <=> first.r = "Succeeded"
            /\ (/\ written
                /\ ~first.synchronizedAt
                /\ ~a.sourceSynchronized
                /\ ~b.sourceSynchronized)
                    => /\ first.r = IF a.exportResult = "Failed" THEN "Failed" ELSE "Skipped"
                       /\ second.r = "Skipped"
                       /\ second.s.io = <<>>
                       /\ ~second.synchronizedAt
                       /\ second.s = After(first.s)

\* a dirty track with a title that is marked and not source-synchronized:
\* the write fails, the mark is cleared, and the second call is skipped
\* although the tags of the file differ
C32_Witness ==
    /\ m_bMarkedForMetadataExport
    /\ m_bDirty
    /\ m_record.title # <<>>
    /\ LET first == exportMetadata(Cur, FALSE, FALSE, "Succeeded", TRUE, "Failed")
           second == exportMetadata(After(first.s), FALSE, FALSE, "Succeeded", TRUE, "Succeeded")
       IN  /\ first.r = "Failed"
           /\ Len(first.s.io) = 2
           /\ ~first.s.m_bMarkedForMetadataExport
           /\ second.r = "Skipped"
           /\ second.s.io = <<>>

\* C33: relocate, initId, resetId, setDateAdded and markForMetadataExport
\* leave the dirty flag as it is and emit no signal, on every track and
\* with every argument.
C33_NoDirtyNoSignal ==
    \A id \in AllTrackIds, fileAccess \in {"a.mp3", "b.mp3"}, dateAdded \in 0..1 :
        /\ relocate(Cur, fileAccess).m_bDirty = m_bDirty
        /\ relocate(Cur, fileAccess).emitted = <<>>
        /\ initId(Cur, id).m_bDirty = m_bDirty
        /\ initId(Cur, id).emitted = <<>>
        /\ resetId(Cur).m_bDirty = m_bDirty
        /\ resetId(Cur).emitted = <<>>
        /\ setDateAdded(Cur, dateAdded).m_bDirty = m_bDirty
        /\ setDateAdded(Cur, dateAdded).emitted = <<>>
        /\ markForMetadataExport(Cur).m_bDirty = m_bDirty
        /\ markForMetadataExport(Cur).emitted = <<>>

\* a clean track with a title and without identifier: initId sets the
\* identifier, resetId removes it again, markForMetadataExport sets the mark,
\* and the track stays clean
C33_Witness ==
    /\ ~m_bDirty
    /\ ~m_bMarkedForMetadataExport
    /\ m_record.title # <<>>
    /\ ~TrackIdIsValid(m_record.id)
    /\ initId(Cur, 2).m_record.id = 2
    /\ ~initId(Cur, 2).m_bDirty
    /\ resetId(After(initId(Cur, 2))).m_record.id = kInvalidTrackId
    /\ ~resetId(After(initId(Cur, 2))).m_bDirty
    /\ markForMetadataExport(Cur).m_bMarkedForMetadataExport
    /\ ~markForMetadataExport(Cur).m_bDirty

C35_MainCueFollowsPosition ==
    \A position \in Positions :
        LET t == setMainCuePosition(Cur, position)
            mainCues == {i \in DOMAIN t.m_cuePoints : t.m_cuePoints[i].type = "MainCue"}
        IN  IF PosIsValid(position)
            THEN /\ Cardinality(mainCues) = 1
                 /\ \A i \in mainCues : t.m_cuePoints[i].startPosition = position
            ELSE mainCues = {}

\* C36: a trySetBpm that is not the call with the tempo of the grid, and a
\* trySetBeats, on a track that is not both BPM-locked and holding a grid,
\* leave the BPM lock off: the lock of a track without grid is cleared.  And
\* an operation that finds the BPM lock off leaves it on only if it is
\* trySetAndLockBeats, tryImportBeats(..., true) - also as the step of
\* replaceMetadataFromSource that submits the Serato beats with their lock -
\* setBpmLocked(true) or replaceRecord.
C36_SettersClearBpmLock ==
    LET rejected == m_pBeats.addr # kNullAddr /\ m_record.bpmLocked
    IN  /\ \A bpm \in BpmValues :
            LET sameBpm == /\ BpmIsValid(bpm)
                           /\ m_pBeats.addr # kNullAddr
                           /\ m_pBeats.bpm = bpm
            IN  IF rejected \/ sameBpm
                THEN trySetBpm(Cur, bpm).s.m_record.bpmLocked = m_record.bpmLocked
                ELSE ~trySetBpm(Cur, bpm).s.m_record.bpmLocked
        /\ \A pBeats \in BeatsArgs(Cur) :
                IF rejected
                THEN trySetBeats(Cur, pBeats).s.m_record.bpmLocked
                ELSE ~trySetBeats(Cur, pBeats).s.m_record.bpmLocked
        /\ \A c \in Calls(Cur) :
                (~m_record.bpmLocked /\ Result(Cur, c).m_record.bpmLocked) =>
                    \/ c[1] \in {"trySetAndLockBeats", "replaceRecord"}
                    \/ c[1] = "tryImportBeats" /\ c[3]
                    \/ c[1] = "setBpmLocked" /\ c[2]
                    \/ c[1] = "replaceMetadataFromSource" /\ c[4][2]

\* a clean BPM-locked track without grid: trySetBpm with a valid tempo and
\* trySetBeats(nullptr) clear the lock, the latter without setting a grid
C36_Witness ==
    /\ m_record.bpmLocked
    /\ m_pBeats.addr = kNullAddr
    /\ ~m_bDirty
    /\ ~trySetBpm(Cur, MaxBpm).s.m_record.bpmLocked
    /\ trySetBpm(Cur, MaxBpm).s.m_pBeats.bpm = MaxBpm
    /\ trySetBeats(Cur, nullBeats).r
    /\ ~trySetBeats(Cur, nullBeats).s.m_record.bpmLocked
    /\ trySetBeats(Cur, nullBeats).s.m_pBeats = m_pBeats
    /\ trySetBeats(Cur, nullBeats).s.m_bDirty

\* C37: removeCuesOfType(type) sets the main cue position of the record to
\* the start position for every type, also on a track whose position
\* setMainCuePosition has just set, and it marks the track dirty and emits
\* cuesUpdated (once) exactly when a cue was removed or the position changed;
\* otherwise it changes and emits nothing.  removeCue of a MainCue cue sets
\* the position to the start position as well.
C37_RemoveResetsMainCuePosition ==
    \A s \in {Cur} \cup {After(setMainCuePosition(Cur, position)) :
                                position \in Positions} :
            /\ \A type \in CueTypes :
                    LET t == removeCuesOfType(s, type)
                        removed == \E i \in DOMAIN s.m_cuePoints :
                                        s.m_cuePoints[i].type = type
                        positionSet == s.m_record.mainCuePosition # kStartFramePos
                    IN  /\ t.m_record.mainCuePosition = kStartFramePos
                        /\ t.lock = s.lock
                        /\ IF removed \/ positionSet
                           THEN /\ t.m_bDirty
                                /\ Len(SignalsOf(t.emitted, {"cuesUpdated"})) = 1
                           ELSE /\ t.m_bDirty = s.m_bDirty
                                /\ t.emitted = <<>>
                                /\ t.m_cuePoints = s.m_cuePoints
                                /\ t.m_record = s.m_record
            /\ \A i \in DOMAIN s.m_cuePoints :
                    LET t == removeCue(s, i)
                    IN  /\ s.m_cuePoints[i].type = "MainCue" =>
                                t.m_record.mainCuePosition = kStartFramePos
                        /\ s.m_cuePoints[i].type # "MainCue" =>
                                t.m_record.mainCuePosition = s.m_record.mainCuePosition
                        /\ t.m_bDirty
                        /\ Len(SignalsOf(t.emitted, {"cuesUpdated"})) = 1

\* a clean track with one hot cue and no main cue: after
\* setMainCuePosition(MaxPos) and markClean, removeCuesOfType(HotCue) resets
\* the position of the record and leaves the MainCue cue where it is, and
\* removeCuesOfType(MainCue) on the track as it is changes nothing
C37_Witness ==
    /\ ~m_bDirty
    /\ Len(m_cuePoints) = 1
    /\ m_cuePoints[1].type = "HotCue"
    /\ m_record.mainCuePosition = kStartFramePos
    /\ removeCuesOfType(Cur, "MainCue").emitted = <<>>
    /\ LET s == markClean(After(setMainCuePosition(Cur, MaxPos)))
           t == removeCuesOfType(After(s), "HotCue")
       IN  /\ s.m_record.mainCuePosition = MaxPos
           /\ t.m_record.mainCuePosition = kStartFramePos
           /\ Len(t.m_cuePoints) = 1
           /\ t.m_cuePoints[1].type = "MainCue"
           /\ t.m_cuePoints[1].startPosition = MaxPos
           /\ t.m_bDirty

C39_OnlyMarkCleanClearsDirty ==
    m_bDirty =>
        /\ \A c \in Calls(Cur) :
                Result(Cur, c).m_bDirty = (c[1] # "markClean")
        /\ \A a \in ExportArgs :
                exportMetadata(Cur, a.sourceSynchronized, a.seratoExport, a.importResult,
                    a.tagsModified, a.exportResult).s.m_bDirty
        /\ relocate(Cur, "a.mp3").m_bDirty
        /\ setDateAdded(Cur, 1).m_bDirty
        /\ markForMetadataExport(Cur).m_bDirty
        /\ ~isDirty(markClean(Cur))

\* a dirty, marked track with an identifier: the export that writes the
\* file, resetId and a replaceRecord leave it dirty, markClean leaves it clean
C39_Witness ==
    /\ m_bDirty
    /\ m_bMarkedForMetadataExport
    /\ TrackIdIsValid(m_record.id)
    /\ LET written == exportMetadata(Cur, TRUE, FALSE, "Succeeded", TRUE, "Succeeded")
       IN  /\ written.r = "Succeeded"
           /\ isDirty(written.s)
    /\ isDirty(resetId(Cur))
    /\ \E c \in Calls(Cur) :
            /\ c[1] = "replaceRecord"
            /\ Result(Cur, c).m_record # m_record
            /\ isDirty(Result(Cur, c))
    /\ ~isDirty(markClean(Cur))

----------------------------------------------------------------------------
(* Statement about the Xone K2 mapping *)

\* C40: on each of the three MIDI channels with decks, deckLayerIndex is 0
\* right after init and in 0..2 from then on, and the bottomButtons of every
\* deck column are the layer of that index; a press of the layer button
\* (note-on status) moves the index from 0 to 1, 1 to 2 and 2 to 0 and makes
\* the layer of the new index the bottomButtons of every deck column of the
\* channel; a message that is no press changes nothing.
C40_LayerIndexCycles ==
    /\ \A channel \in DeckChannels :
            XoneK2_init(NewControllers)[channel].deckLayerIndex = 0
    /\ controllers # NewControllers =>
        \A channel \in DeckChannels :
            LET c == controllers[channel]
                pressed == decksLayerButton(controllers, channel, 144 + channel)
                released == decksLayerButton(controllers, channel, 128 + channel)
                index == (c.deckLayerIndex + 1) % Len(deckBottomButtonLayers)
            IN  /\ c.deckLayerIndex \in 0..(Len(deckBottomButtonLayers) - 1)
                /\ \A x \in 1..4 :
                        c.columns[x].kind = "Deck" =>
                            c.columns[x].bottomButtons =
                                deckBottomButtonLayers[c.deckLayerIndex + 1].name
                /\ pressed[channel].deckLayerIndex = index
                /\ \A x \in 1..4 :
                        IF c.columns[x].kind = "Deck"
                        THEN pressed[channel].columns[x].bottomButtons =
                                deckBottomButtonLayers[index + 1].name
                        ELSE pressed[channel].columns[x] = c.columns[x]
                /\ \A other \in DOMAIN controllers \ {channel} :
                        pressed[other] = controllers[other]
                /\ released = controllers

\* the controller with four decks is on the last layer, hotcue, and the one
\* with the decks in the middle on the first: a press on the former returns
\* all four columns to transport and leaves the latter alone
C40_Witness ==
    /\ controllers[fourDecksMidiChannel].deckLayerIndex = 2
    /\ controllers[fourDecksMidiChannel].columns[1].bottomButtons = "hotcue"
    /\ controllers[decksInMiddleMidiChannel].deckLayerIndex = 0
    /\ controllers[fourDecksMidiChannel].isShifted
    /\ LET pressed == decksLayerButton(controllers, fourDecksMidiChannel,
                            144 + fourDecksMidiChannel)
       IN  /\ pressed[fourDecksMidiChannel].deckLayerIndex = 0
           /\ \A x \in 1..4 :
                pressed[fourDecksMidiChannel].columns[x].bottomButtons = "transport"
           /\ pressed[decksInMiddleMidiChannel] = controllers[decksInMiddleMidiChannel]

====
